---- MODULE Spec2Model ----
(***************************************************************************)
(* OAuth2 credential lifecycle of the Google Calendar CSV export app:      *)
(* authenticate_google of calendar_export_app.py (interactive and headless *)
(* flows) and of calendar_export_app_diagnostic.py (interactive flow       *)
(* only), the process-wide SSL bypass, and the environment they talk to    *)
(* (the two files on disk, the Streamlit session, the identity provider).  *)
(*                                                                         *)
(* An optional value (Python None, a missing file, a missing session key)  *)
(* is the empty sequence None; a present value x is Some(x) = <<x>>.       *)
(***************************************************************************)
EXTENDS Integers, Sequences, FiniteSets, TLC

VARIABLES
    token_json,        \* the file token.json: None or Some(credential record)
    credentials_json,  \* the file credentials.json: None or Some(client config)
    session_state,     \* st.session_state: oauth_flow, auth_url, redirect_uri, oauth_redirect_input,
                       \* authenticated, service, disable_ssl_verify
    query_params,      \* st.query_params: code and state (0 = parameter absent)
    ssl_module,        \* _ssl_bypass_enabled and the patched attributes of module ssl
    provider,          \* the identity provider: URLs handed out, codes issued, codes consumed
    page,              \* what the last script run left on the page
    env,               \* which app runs, and is_running_on_cloud()
    runs,              \* the script runs of concurrent sessions, statement by statement
    export,            \* the last get_calendar_events call: arguments, API responses, outcome
    call               \* the last authenticate_google call: state before, inputs, outcome

vars == <<token_json, credentials_json, session_state, query_params, ssl_module,
          provider, page, env, runs, export, call>>

None == <<>>
Some(x) == <<x>>
Get(o) == o[1]

\* ---------------------------------------------------------------- bounds
MaxFlows == 2      \* authorization URLs (CSRF states) generated over a run
MaxCodes == 1      \* authorization codes the provider issues over a run

\* ---------------------------------------------------------------- data
URIs == {"u1", "u2"}

\* A client configuration file. parses = FALSE is a file json.load rejects.
\* web / installed: None when the key is absent, else Some(redirect_uris).
Config(p, w, i) == [parses |-> p, web |-> w, installed |-> i]

ClientConfigs ==
    { Config(TRUE, None, Some(<<"u1", "u2">>)),
      Config(TRUE, Some(<<"u2", "u1">>), None),
      Config(TRUE, Some(<<"u1">>), Some(<<"u2">>)),
      Config(TRUE, Some(<<>>), None),
      Config(TRUE, None, None),
      Config(FALSE, None, None) }

\* A credential: access token present, refresh token present, expiry against the
\* clock, and the grant it comes from (via, code) so that records can be told apart.
Credential(t, r, e, v, c) ==
    [token |-> t, refresh_token |-> r, expiry |-> e, via |-> v, code |-> c]

\* The records token.json may hold at the start; TimePasses makes each one expire.
StoredTokens ==
    { Credential(t, r, "future", "stored", 0) : t \in BOOLEAN, r \in BOOLEAN }

\* Two contents of token.json that Credentials.from_authorized_user_file rejects:
\* text that is no JSON document (as a write cut short leaves it), and a JSON
\* object without the required key refresh_token.
Unparsable == [garbage |-> TRUE]
Partial == [token |-> TRUE, expiry |-> "future"]
UnloadableTokens == {Unparsable, Partial}

\* Mutant: the expiry comparison inverted
expired_inverted(creds) == creds.expiry # "past"

\* google.oauth2.credentials.Credentials.expired / .valid
expired(creds) == creds.expiry = "past"
valid(creds) == creds.token /\ ~expired(creds)

\* Credentials.to_json() and Credentials.from_authorized_user_file(): the fields
\* the round trip through token.json keeps.
to_json(creds) ==
    [token |-> creds.token, refresh_token |-> creds.refresh_token,
     expiry |-> creds.expiry, via |-> creds.via, code |-> creds.code]

from_authorized_user_file(info) ==
    Credential(info.token, info.refresh_token, info.expiry, info.via, info.code)

\* from_authorized_user_file raises ValueError on a file that json.load rejects or
\* that lacks a required key
loadable(info) == "garbage" \notin DOMAIN info /\ "refresh_token" \in DOMAIN info

\* The outcomes of the outside world that one call consults.
Inputs ==
    [disable_ssl_verify : BOOLEAN,   \* the argument of authenticate_google
     refresh_ok : BOOLEAN,           \* creds.refresh(Request()) returns
     accept : BOOLEAN,               \* the token endpoint is reached and answers
     local_ok : BOOLEAN,             \* flow.run_local_server() returns credentials
     local_hangs : {FALSE},          \* the redirect never reaches run_local_server()
     build_ok : BOOLEAN,             \* AuthorizedHttp(...) / build(...) return
     click : BOOLEAN,                \* the restart button was pressed
     write_fails : {FALSE},          \* open('token.json', 'w') raises
     write_crash : {FALSE}]          \* the process stops while token.json is written

\* The same with a file system that fails, a process that stops, and a user who
\* never completes the consent in the browser
FaultInputs ==
    [disable_ssl_verify : BOOLEAN, refresh_ok : BOOLEAN, accept : BOOLEAN,
     local_ok : BOOLEAN, local_hangs : BOOLEAN, build_ok : BOOLEAN, click : BOOLEAN,
     write_fails : BOOLEAN, write_crash : BOOLEAN]

\* ---------------------------------------------------------------- SSL bypass
\* ssl_module = [bypass   : _ssl_bypass_enabled,
\*               context  : ssl._create_default_https_context ("verified"/"unverified"),
\*               original : ssl._create_default_https_context_original (None = no attribute)]
\* Mutant: every activation saves the factory it finds
enable_ssl_bypass_resaves(s) ==
    IF ~s.bypass
    THEN [bypass |-> TRUE, context |-> "unverified", original |-> Some(s.context)]
    ELSE s

enable_ssl_bypass(s) ==
    IF ~s.bypass
    THEN [bypass |-> TRUE,
          context |-> "unverified",
          original |-> IF s.original = None THEN Some(s.context) ELSE s.original]
    ELSE s

disable_ssl_bypass(s) ==
    IF s.bypass /\ s.original # None
    THEN [s EXCEPT !.context = Get(s.original), !.bypass = FALSE]
    ELSE s

\* Returns the new module state and the httplib2.Http client built.
create_http_client(s, disable_ssl_verify) ==
    IF disable_ssl_verify
    THEN [ssl |-> enable_ssl_bypass(s),
          http |-> [disable_ssl_certificate_validation |-> TRUE]]
    ELSE [ssl |-> disable_ssl_bypass(s),
          http |-> [disable_ssl_certificate_validation |-> FALSE]]

\* ---------------------------------------------------------------- concurrent runs
\* Streamlit serves every browser session from one process and executes the
\* script of each in a thread of its own. A run has its own module globals (the
\* flag of line 31 among them); the attributes of module ssl are shared.
Sessions == {1, 2}

\* A script run: where it stands, the mode calls it still has to make, the
\* session's disable_ssl_verify setting, the mode it asks create_http_client for,
\* its _ssl_bypass_enabled, and the HTTP client it built
IdleRun(setting) ==
    [pc |-> "idle", todo |-> <<>>, setting |-> setting, disable_ssl_verify |-> FALSE,
     flag |-> FALSE, http |-> None]

NoRuns == [s \in Sessions |-> IdleRun(FALSE)]

\* ---------------------------------------------------------------- one call
\* The state a call works on: w is the world it reads and writes, the other
\* fields are its local variables and a record of what it did.
Running == "running"

Context(w) ==
    [w |-> w,
     creds |-> None,            \* local creds
     client_type |-> "installed",
     flow |-> None,             \* local flow
     auth_url |-> None,         \* local auth_url (None = unbound)
     redirect_uri |-> None,     \* local redirect_uri (None = unbound)
     status |-> Running,        \* the status returned, Running until the call ends
     service |-> None,          \* the handle returned
     n_refresh |-> 0,           \* creds.refresh() calls
     n_authorization_url |-> 0, \* flow.authorization_url() calls
     n_fetch_token |-> 0,       \* flow.fetch_token() calls
     fetch |-> None,            \* the last fetch_token: code, flow used, outcome
     n_run_local_server |-> 0,  \* flow.run_local_server() calls
     wrote_token |-> FALSE,     \* token.json was written
     removed_token |-> FALSE,   \* token.json was removed
     rendered_input |-> FALSE,  \* the text input was rendered
     rendered_button |-> FALSE, \* the restart button was rendered
     asked |-> {}]              \* the inputs the call consulted

Return(c, status) == [c EXCEPT !.status = status]

not_creds(c) == c.creds = None

\* Mutant: the installed section is looked for first
get_oauth_client_type_installed_first(cfg) ==
    IF cfg = None THEN "installed"
    ELSE IF ~Get(cfg).parses THEN "installed"
    ELSE IF Get(cfg).installed # None THEN "installed"
    ELSE IF Get(cfg).web # None THEN "web"
    ELSE "installed"

\* get_oauth_client_type() on the file credentials.json
get_oauth_client_type(cfg) ==
    IF cfg = None THEN "installed"
    ELSE IF ~Get(cfg).parses THEN "installed"
    ELSE IF Get(cfg).web # None THEN "web"
    ELSE "installed"

\* What a call ends with when an exception leaves authenticate_google, and when
\* the process stops inside it
Raised == "raised"
Crashed == "crashed"

\* What a call ends with when it never returns: run_local_server() is called
\* without timeout_seconds and waits for the redirect request without limit
Blocked == "blocked"

\* lines 278-282: load the cached credentials; the load stands outside every try
\* block, so what from_authorized_user_file raises leaves the function
LoadToken(c) ==
    IF c.w.token_json = None THEN c
    ELSE IF loadable(Get(c.w.token_json))
    THEN [c EXCEPT !.creds = Some(from_authorized_user_file(Get(c.w.token_json)))]
    ELSE Return(c, Raised)

\* Mutant: the refreshed token is not kept, the expired credential goes on
RefreshToken_discards(c, in) ==
    IF c.creds # None /\ expired(Get(c.creds)) /\ Get(c.creds).refresh_token
    THEN LET c1 == [c EXCEPT !.n_refresh = @ + 1, !.asked = @ \cup {"refresh_ok"}]
         IN  IF in.refresh_ok
             THEN c1
             ELSE [c1 EXCEPT !.w.token_json = None,
                             !.removed_token = (c.w.token_json # None),
                             !.creds = None]
    ELSE c

\* Mutant: a failed refresh drops the credential but leaves token.json in place
RefreshToken_keeps_file(c, in) ==
    IF c.creds # None /\ expired(Get(c.creds)) /\ Get(c.creds).refresh_token
    THEN LET c1 == [c EXCEPT !.n_refresh = @ + 1, !.asked = @ \cup {"refresh_ok"}]
         IN  IF in.refresh_ok
             THEN [c1 EXCEPT !.creds = Some(Credential(TRUE, TRUE, "future", "refresh",
                                                       Get(c.creds).code))]
             ELSE [c1 EXCEPT !.creds = None]
    ELSE c

\* lines 286-294: refresh an expired credential that has a refresh token;
\* a failed refresh removes token.json and drops the credential
RefreshToken(c, in) ==
    IF c.creds # None /\ expired(Get(c.creds)) /\ Get(c.creds).refresh_token
    THEN LET c1 == [c EXCEPT !.n_refresh = @ + 1, !.asked = @ \cup {"refresh_ok"}]
         IN  IF in.refresh_ok
             THEN [c1 EXCEPT !.creds = Some(Credential(TRUE, TRUE, "future", "refresh",
                                                       Get(c.creds).code))]
             ELSE [c1 EXCEPT !.w.token_json = None,
                             !.removed_token = (c.w.token_json # None),
                             !.creds = None]
    ELSE c

\* The token endpoint of the provider: a code is exchanged once, by a request
\* that carries the redirect URI the code was issued for.
TokenRequestOK(prov, code, uri) ==
    /\ code \in 1..Len(prov.codes)
    /\ code \notin prov.consumed
    /\ prov.codes[code].redirect_uri = uri

\* flow.fetch_token(code=...) / the token request of fetch_token(authorization_response=...):
\* records the attempt; on success the provider consumes the code.
fetch_token(c, flow, code, source, in) ==
    LET reach == TokenRequestOK(c.w.provider, code, flow.redirect_uri)
        ok == reach /\ in.accept
    IN  [c EXCEPT !.n_fetch_token = @ + 1,
                  !.asked = IF reach THEN @ \cup {"accept"} ELSE @,
                  !.fetch = Some([code |-> code, redirect_uri |-> flow.redirect_uri,
                                  flow_state |-> flow.state, source |-> source, ok |-> ok]),
                  !.w.provider.consumed = IF ok THEN @ \cup {code} ELSE @]

fetch_ok(c) == c.fetch # None /\ Get(c.fetch).ok

\* flow.credentials after a successful fetch_token
flow_credentials(c) == Credential(TRUE, TRUE, "future", "exchange", Get(c.fetch).code)

\* Flow.from_client_secrets_file(..., redirect_uri=...) / InstalledAppFlow: a flow
\* object before authorization_url() has given it a state
NewFlow(client_type, redirect_uri) ==
    [client_type |-> client_type, redirect_uri |-> redirect_uri, state |-> 0, _state |-> 0]

\* creds_data[client_type]['redirect_uris'][0]: None when the lookup raises
\* (KeyError on a missing section, IndexError on an empty list)
FirstRedirectUri(cfg, client_type) ==
    LET section == IF client_type = "web" THEN cfg.web ELSE cfg.installed
    IN  IF section = None THEN None
        ELSE IF Len(Get(section)) = 0 THEN None
        ELSE Some(Get(section)[1])

\* ---------------------------------------------------------------- headless flow
NoParams == [code |-> 0, state |-> 0]

\* lines 306-308: json.load(credentials.json); a file that does not parse raises
\* into the handler of line 534
ReadConfig(c) ==
    IF ~Get(c.w.credentials_json).parses THEN Return(c, "auth_error") ELSE c

\* Mutant: the rebuilt flow takes the last configured redirect URI
CallbackRedirectUri_last(cfg) ==
    IF cfg.web = None THEN None
    ELSE IF Len(Get(cfg.web)) = 0 THEN None
    ELSE Some(Get(cfg.web)[Len(Get(cfg.web))])

\* line 339: the redirect URI of a flow rebuilt for a callback
CallbackRedirectUri(cfg) == FirstRedirectUri(cfg, "web")

\* lines 382-390: the handler of a failed callback
CallbackFailed(c) ==
    Return([c EXCEPT !.w.session_state.oauth_flow = None,
                     !.w.query_params = NoParams],
           "auth_error")

\* Mutant: a callback that finds no pending flow in the session is an error
WebCallback_requires_session(c, in) ==
    IF c.status # Running THEN c
    ELSE IF c.w.query_params.code # 0 /\ c.client_type = "web"
    THEN IF c.w.session_state.oauth_flow = None
         THEN CallbackFailed(c)
         ELSE LET flow == Get(c.w.session_state.oauth_flow)
                  c2 == fetch_token([c EXCEPT !.flow = Some(flow)], flow,
                                    c.w.query_params.code, "session", in)
              IN  IF fetch_ok(c2)
                  THEN [c2 EXCEPT !.creds = Some(flow_credentials(c2)),
                                  !.w.session_state.oauth_flow = None,
                                  !.w.query_params = NoParams]
                  ELSE CallbackFailed(c2)
    ELSE c

\* lines 324-390: a `code` query parameter with a web client is exchanged at once,
\* with the flow of the session or with one rebuilt from credentials.json
WebCallback(c, in) ==
    IF c.status # Running THEN c
    ELSE IF c.w.query_params.code # 0 /\ c.client_type = "web"
    THEN LET in_session == c.w.session_state.oauth_flow # None
             uri == CallbackRedirectUri(Get(c.w.credentials_json))
         IN  IF ~in_session /\ uri = None
             THEN CallbackFailed(c)
             ELSE LET flow == IF in_session
                              THEN Get(c.w.session_state.oauth_flow)
                              ELSE [NewFlow("web", Get(uri))
                                      EXCEPT !._state = c.w.query_params.state]
                      c1 == [c EXCEPT !.flow = Some(flow),
                                      !.redirect_uri = IF in_session THEN @ ELSE uri]
                      c2 == fetch_token(c1, flow, c.w.query_params.code,
                                        IF in_session THEN "session" ELSE "rebuilt", in)
                  IN  IF fetch_ok(c2)
                      THEN [c2 EXCEPT !.creds = Some(flow_credentials(c2)),
                                      !.w.session_state.oauth_flow = None,
                                      !.w.query_params = NoParams]
                      ELSE CallbackFailed(c2)
    ELSE c

\* lines 395-426: build a flow bound to redirect_uris[0], generate its
\* authorization URL and keep flow, URL and redirect URI in the session
StartFlow(c) ==
    LET uri == FirstRedirectUri(Get(c.w.credentials_json), c.client_type)
        st == Len(c.w.provider.auth_urls) + 1
    IN  IF uri = None
        THEN Return(c, "auth_error")
        ELSE LET flow == [NewFlow(c.client_type, Get(uri)) EXCEPT !.state = st]
                 url == [redirect_uri |-> Get(uri), state |-> st]
             IN  [c EXCEPT !.flow = Some(flow),
                           !.auth_url = Some(url),
                           !.redirect_uri = uri,
                           !.n_authorization_url = @ + 1,
                           !.w.provider.auth_urls = Append(@, url),
                           !.w.session_state.oauth_flow = Some(flow),
                           !.w.session_state.auth_url = Some(url),
                           !.w.session_state.redirect_uri = uri]

\* lines 427-431: take the pending flow from the session; a missing session key
\* raises into the handler of line 534
ResumeFlow(c) ==
    IF c.w.session_state.auth_url = None \/ c.w.session_state.redirect_uri = None
    THEN Return([c EXCEPT !.flow = c.w.session_state.oauth_flow], "auth_error")
    ELSE [c EXCEPT !.flow = c.w.session_state.oauth_flow,
                   !.auth_url = c.w.session_state.auth_url,
                   !.redirect_uri = c.w.session_state.redirect_uri]

\* Mutant: every call without credentials starts a flow, pending or not
StartOrResume_restarts(c) ==
    IF c.status # Running THEN c
    ELSE IF not_creds(c) THEN StartFlow(c)
    ELSE c

\* lines 394-431: without credentials, start a flow or resume the pending one
StartOrResume(c) ==
    IF c.status # Running THEN c
    ELSE IF not_creds(c) /\ c.w.session_state.oauth_flow = None THEN StartFlow(c)
    ELSE IF not_creds(c) THEN ResumeFlow(c)
    ELSE c

\* lines 434-461: both branches of the instructions format the local auth_url;
\* when neither branch of lines 394-431 ran it is unbound and the read raises
\* into the handler of line 534
Display(c) ==
    IF c.status # Running THEN c
    ELSE IF c.auth_url = None THEN Return(c, "auth_error")
    ELSE c

\* flow.fetch_token(authorization_response=url): the URL must carry a code and the
\* state of the flow, else the call raises before any request is made
fetch_token_response(c, flow, url, source, in) ==
    IF url.code # 0 /\ url.state = flow.state
    THEN fetch_token(c, flow, url.code, source, in)
    ELSE [c EXCEPT !.n_fetch_token = @ + 1,
                   !.fetch = Some([code |-> url.code, redirect_uri |-> flow.redirect_uri,
                                   flow_state |-> flow.state, source |-> source,
                                   ok |-> FALSE])]

\* Mutant: the failure is swallowed and the credentials are read off the flow
ManualFailed_swallowed(c, in) ==
    [c EXCEPT !.creds = Some(flow_credentials(c))]

\* Mutant: the handler drops the pending flow, as the callback handler does
ManualFailed_drops_flow(c, in) ==
    LET c1 == [c EXCEPT !.rendered_button = TRUE, !.asked = @ \cup {"click"},
                        !.w.session_state.oauth_flow = None]
    IN  IF in.click
        THEN Return([c1 EXCEPT !.w.session_state.auth_url = None], "rerun")
        ELSE Return(c1, "auth_error")

\* Mutant: the restart button drops the authorization URL and keeps the flow
ManualFailed_keeps_flow(c, in) ==
    LET c1 == [c EXCEPT !.rendered_button = TRUE, !.asked = @ \cup {"click"}]
    IN  IF in.click
        THEN Return([c1 EXCEPT !.w.session_state.auth_url = None], "rerun")
        ELSE Return(c1, "auth_error")

\* lines 496-520: the handler of a failed manual exchange; the restart button
\* drops the pending flow and reruns the script
ManualFailed(c, in) ==
    LET c1 == [c EXCEPT !.rendered_button = TRUE, !.asked = @ \cup {"click"}]
    IN  IF in.click
        THEN Return([c1 EXCEPT !.w.session_state.oauth_flow = None,
                               !.w.session_state.auth_url = None],
                    "rerun")
        ELSE Return(c1, "auth_error")

\* lines 472-527: an installed client exchanges the pasted redirect URL, if any;
\* otherwise the call suspends
ManualInput(c, in) ==
    IF c.status # Running THEN c
    ELSE IF not_creds(c) /\ c.client_type = "installed"
    THEN LET c1 == [c EXCEPT !.rendered_input = TRUE]
             redirect_url == c.w.session_state.oauth_redirect_input
         IN  IF redirect_url # None
             THEN LET c2 == fetch_token_response(
                                c1, Get(c.flow), Get(redirect_url),
                                IF c.n_authorization_url > 0 THEN "started" ELSE "session",
                                in)
                  IN  IF fetch_ok(c2)
                      THEN [c2 EXCEPT !.creds = Some(flow_credentials(c2)),
                                      !.w.session_state.oauth_flow = None,
                                      !.w.session_state.auth_url = None]
                      ELSE ManualFailed(c2, in)
             ELSE Return(c1, "awaiting_auth")
    ELSE IF not_creds(c) THEN Return(c, "awaiting_auth")
    ELSE c

\* lines 305-527
HeadlessFlow(c, in) ==
    ManualInput(Display(StartOrResume(WebCallback(ReadConfig(c), in))), in)

\* ---------------------------------------------------------------- interactive flow
\* lines 530-532 (diagnostic 197-199): InstalledAppFlow.from_client_secrets_file
\* raises on a file that is no client configuration; run_local_server() returns
\* the credentials or raises
LocalFlow(c, in) ==
    LET cfg == Get(c.w.credentials_json)
    IN  IF ~cfg.parses \/ (cfg.web = None /\ cfg.installed = None)
        THEN Return(c, "auth_error")
        ELSE LET c1 == [c EXCEPT !.n_run_local_server = @ + 1,
                                 !.asked = @ \cup {"local_ok"}]
             IN  IF in.local_hangs
                 THEN Return(c1, Blocked)
                 ELSE IF in.local_ok
                 THEN [c1 EXCEPT !.creds = Some(Credential(TRUE, TRUE, "future", "local", 0))]
                 ELSE Return(c1, "auth_error")

\* ---------------------------------------------------------------- authenticate_google
\* lines 296-535: no credentials in hand
ObtainCredentials(c, in) ==
    IF c.w.credentials_json = None
    THEN Return(c, "credentials_missing")
    ELSE LET c1 == [c EXCEPT !.client_type = get_oauth_client_type(c.w.credentials_json)]
         IN  IF c.w.env.cloud THEN HeadlessFlow(c1, in) ELSE LocalFlow(c1, in)

\* Mutant: the credentials are not saved
SaveToken_skipped(c, in) == c

\* lines 537-540: save the credentials for the next run. open(..., 'w') empties
\* the file before anything is written; the statement stands outside every try
\* block. A failing open leaves the file as it was and raises; a process that
\* stops before the write ends leaves a cut-off file.
SaveToken(c, in) ==
    IF c.status = Running /\ c.creds # None
    THEN LET c1 == [c EXCEPT !.asked = @ \cup {"write"}]
         IN  IF in.write_fails THEN Return(c1, Raised)
             ELSE IF in.write_crash
             THEN Return([c1 EXCEPT !.w.token_json = Some(Unparsable)], Crashed)
             ELSE [c1 EXCEPT !.w.token_json = Some(to_json(Get(c.creds))),
                             !.wrote_token = TRUE]
    ELSE c

\* Mutant: a failed build hands out the half-built handle with its error status
BuildService_leaks_handle(c, in) ==
    IF c.status # Running THEN c
    ELSE LET made == create_http_client(c.w.ssl_module, in.disable_ssl_verify)
             c1 == [c EXCEPT !.w.ssl_module = made.ssl, !.asked = @ \cup {"build_ok"},
                             !.service = Some([creds |-> Get(c.creds), http |-> made.http])]
         IN  Return(c1, IF in.build_ok THEN "success" ELSE "service_error")

\* lines 542-553: build the client handle on the HTTP client of the requested mode
BuildService(c, in) ==
    IF c.status # Running THEN c
    ELSE LET made == create_http_client(c.w.ssl_module, in.disable_ssl_verify)
             c1 == [c EXCEPT !.w.ssl_module = made.ssl, !.asked = @ \cup {"build_ok"}]
         IN  IF in.build_ok
             THEN Return([c1 EXCEPT !.service = Some([creds |-> Get(c.creds),
                                                      http |-> made.http])],
                         "success")
             ELSE Return(c1, "service_error")

\* calendar_export_app.py, lines 270-553
authenticate_google(w, in) ==
    LET c1 == LoadToken(Context(w))
    IN  IF c1.status # Running THEN c1
        ELSE IF not_creds(c1) \/ ~valid(Get(c1.creds))
        THEN LET c2 == RefreshToken(c1, in)
                 c3 == IF not_creds(c2) THEN ObtainCredentials(c2, in) ELSE c2
             IN  BuildService(SaveToken(c3, in), in)
        ELSE BuildService(c1, in)

\* calendar_export_app_diagnostic.py, lines 192-201
ObtainCredentialsDiagnostic(c, in) ==
    IF c.w.credentials_json = None
    THEN Return(c, "credentials_missing")
    ELSE LocalFlow(c, in)

\* Mutant: the diagnostic variant does not refresh an expired credential
authenticate_google_diagnostic_no_refresh(w, in) ==
    LET c1 == LoadToken(Context(w))
    IN  IF c1.status # Running THEN c1
        ELSE IF not_creds(c1) \/ ~valid(Get(c1.creds))
        THEN LET c3 == IF not_creds(c1) THEN ObtainCredentialsDiagnostic(c1, in) ELSE c1
             IN  BuildService(SaveToken(c3, in), in)
        ELSE BuildService(c1, in)

\* calendar_export_app_diagnostic.py, lines 166-218
authenticate_google_diagnostic(w, in) ==
    LET c1 == LoadToken(Context(w))
    IN  IF c1.status # Running THEN c1
        ELSE IF not_creds(c1) \/ ~valid(Get(c1.creds))
        THEN LET c2 == RefreshToken(c1, in)
                 c3 == IF not_creds(c2) THEN ObtainCredentialsDiagnostic(c2, in) ELSE c2
             IN  BuildService(SaveToken(c3, in), in)
        ELSE BuildService(c1, in)

\* ---------------------------------------------------------------- state machine
World ==
    [token_json |-> token_json, credentials_json |-> credentials_json,
     session_state |-> session_state, query_params |-> query_params,
     ssl_module |-> ssl_module, provider |-> provider, env |-> env]

EmptySession ==
    [oauth_flow |-> None, auth_url |-> None, redirect_uri |-> None,
     oauth_redirect_input |-> None,
     authenticated |-> FALSE, service |-> None, disable_ssl_verify |-> FALSE]

\* The widgets a run rendered: the text input and the restart button of
\* authenticate_google, the SSL checkbox, the buttons of the connected view, and
\* a notice that SSL verification is disabled
BlankPage ==
    [input |-> FALSE, button |-> FALSE, options |-> FALSE, connected |-> FALSE,
     indicator |-> FALSE]

\* A code value no provider issued
Bogus == MaxCodes + 1

\* The ssl module and the flag of line 31 in a process that just started
FreshSsl == [bypass |-> FALSE, context |-> "verified", original |-> None]

Init ==
    /\ token_json \in {None} \cup {Some(t) : t \in StoredTokens}
    /\ credentials_json = None
    /\ session_state = EmptySession
    /\ query_params = NoParams
    /\ ssl_module = FreshSsl
    /\ provider = [auth_urls |-> <<>>, codes |-> <<>>, consumed |-> {}]
    /\ page = BlankPage
    /\ env \in { [variant |-> "app", cloud |-> TRUE],
                 [variant |-> "app", cloud |-> FALSE],
                 [variant |-> "diagnostic", cloud |-> FALSE] }
    /\ runs = NoRuns
    /\ export = None
    /\ call = None

\* authenticate_google of the app that runs
Run(w, in) ==
    IF w.env.variant = "app"
    THEN authenticate_google(w, in)
    ELSE authenticate_google_diagnostic(w, in)

\* The outcome of a call without the world it ended in
Outcome(r) == [f \in DOMAIN r \ {"w"} |-> r[f]]

\* An input the call did not consult is left at FALSE, so that one behaviour of
\* the code is one step of the model.
Consulted(in, r) ==
    /\ \A name \in {"refresh_ok", "accept", "local_ok", "build_ok", "click"} \ r.asked :
           ~in[name]
    /\ "build_ok" \notin r.asked => ~in.disable_ssl_verify
    /\ ("local_ok" \notin r.asked \/ in.local_ok) => ~in.local_hangs
    /\ "write" \notin r.asked => ~in.write_fails
    /\ ("write" \notin r.asked \/ in.write_fails) => ~in.write_crash

\* One script run that reaches authenticate_google(disable_ssl_verify). The
\* restart button reads as pressed only if the page showed it. A widget that
\* the run did not render loses its session value (text input of lines 474-478).
\* A process that stopped starts again with no session and an untouched ssl module.
Authenticate(in) ==
    /\ in.click => page.button
    /\ \E r \in {Run(World, in)} :
       LET stopped == r.status = Crashed
       IN
        /\ Len(r.w.provider.auth_urls) <= MaxFlows
        /\ Consulted(in, r)
        /\ token_json' = r.w.token_json
        /\ credentials_json' = r.w.credentials_json
        /\ session_state' =
              IF stopped THEN EmptySession
              ELSE [r.w.session_state EXCEPT
                      !.oauth_redirect_input = IF r.rendered_input THEN @ ELSE None]
        /\ query_params' = IF stopped THEN NoParams ELSE r.w.query_params
        /\ ssl_module' = IF stopped THEN FreshSsl ELSE r.w.ssl_module
        /\ provider' = r.w.provider
        /\ page' = IF stopped THEN BlankPage
                   ELSE [BlankPage EXCEPT !.input = r.rendered_input,
                                          !.button = r.rendered_button]
        /\ call' = Some([pre |-> World, in |-> in, res |-> Outcome(r)])
        /\ UNCHANGED <<env, runs, export>>

\* The user types into (or empties) the text input the page shows.
UserPastes(url) ==
    /\ page.input
    /\ session_state.oauth_redirect_input # url
    /\ session_state' = [session_state EXCEPT !.oauth_redirect_input = url]
    /\ UNCHANGED <<token_json, credentials_json, query_params, ssl_module, provider,
                   page, env, runs, export>>
    /\ call' = None

\* The redirect URL of an issued code, as the provider wrote it or with its
\* state parameter cut off; None empties the input.
PastedURLs ==
    {None} \cup
    UNION { { Some([code |-> c, state |-> s]) : s \in {0, provider.codes[c].state} } :
            c \in 1..Len(provider.codes) }

\* The query parameters of a request: none, the callback of an issued code (as
\* the provider wrote it or without its state), or a code nobody issued.
RequestParams ==
    {NoParams, [code |-> Bogus, state |-> 0]} \cup
    UNION { { [code |-> c, state |-> s] : s \in {0, provider.codes[c].state} } :
            c \in 1..Len(provider.codes) }

\* The user opens an authorization URL the app generated and consents: the
\* provider issues a code for the redirect URI and state of that URL.
OpenAuthorizationURL(n) ==
    /\ Len(provider.codes) < MaxCodes
    /\ provider' = [provider EXCEPT !.codes = Append(@, provider.auth_urls[n])]
    /\ UNCHANGED <<token_json, credentials_json, session_state, query_params, ssl_module,
                   page, env, runs, export>>
    /\ call' = None

\* A browser request reaches the app with the given query parameters, in the
\* same session or in a new one.
Visit(params, lost) ==
    /\ env.variant = "app"
    /\ query_params' = params
    /\ session_state' = IF lost THEN EmptySession ELSE session_state
    /\ page' = BlankPage
    /\ <<query_params', session_state', page'>> # <<query_params, session_state, page>>
    /\ UNCHANGED <<token_json, credentials_json, ssl_module, provider, env, runs, export>>
    /\ call' = None

\* The clock passes the expiry of the stored credential.
TimePasses ==
    /\ token_json # None
    /\ loadable(Get(token_json))
    /\ Get(token_json).expiry = "future"
    /\ token_json' = Some([Get(token_json) EXCEPT !.expiry = "past"])
    /\ UNCHANGED <<credentials_json, session_state, query_params, ssl_module, provider,
                   page, env, runs, export>>
    /\ call' = None

\* The user puts a client configuration in place.
AddClientConfig(cfg) ==
    /\ credentials_json = None
    /\ credentials_json' = Some(cfg)
    /\ UNCHANGED <<token_json, session_state, query_params, ssl_module, provider,
                   page, env, runs, export>>
    /\ call' = None

\* A rerun executes the script from the top: line 31 resets the flag, the ssl
\* module keeps its attributes.
LoadScript ==
    /\ ssl_module.bypass
    /\ ssl_module' = [ssl_module EXCEPT !.bypass = FALSE]
    /\ UNCHANGED <<token_json, credentials_json, session_state, query_params, provider,
                   page, env, runs, export>>
    /\ call' = None

Next ==
    \/ \E in \in Inputs : Authenticate(in)
    \/ \E url \in PastedURLs : UserPastes(url)
    \/ \E n \in 1..Len(provider.auth_urls) : OpenAuthorizationURL(n)
    \/ \E params \in RequestParams, lost \in BOOLEAN : Visit(params, lost)
    \/ TimePasses
    \/ \E cfg \in ClientConfigs : AddClientConfig(cfg)
    \/ LoadScript

Spec == Init /\ [][Next]_vars

\* ---------------------------------------------------------------- with faults
\* The same program on a file system that may hold an unloadable token.json and
\* may fail, and in a process that may stop while it writes.
FaultInit ==
    /\ token_json \in {None} \cup {Some(t) : t \in StoredTokens \cup UnloadableTokens}
    /\ credentials_json = None
    /\ session_state = EmptySession
    /\ query_params = NoParams
    /\ ssl_module = FreshSsl
    /\ provider = [auth_urls |-> <<>>, codes |-> <<>>, consumed |-> {}]
    /\ page = BlankPage
    /\ env \in { [variant |-> "app", cloud |-> TRUE],
                 [variant |-> "app", cloud |-> FALSE],
                 [variant |-> "diagnostic", cloud |-> FALSE] }
    /\ runs = NoRuns
    /\ export = None
    /\ call = None

FaultNext ==
    \/ \E in \in FaultInputs : Authenticate(in)
    \/ \E url \in PastedURLs : UserPastes(url)
    \/ \E n \in 1..Len(provider.auth_urls) : OpenAuthorizationURL(n)
    \/ \E params \in RequestParams, lost \in BOOLEAN : Visit(params, lost)
    \/ TimePasses
    \/ \E cfg \in ClientConfigs : AddClientConfig(cfg)
    \/ LoadScript

FaultSpec == FaultInit /\ [][FaultNext]_vars

\* ---------------------------------------------------------------- main
\* What the user did to trigger a script run: nothing (page load, rerun, typing),
\* ticking or unticking the SSL checkbox, or pressing a button of the connected
\* view
Actions == {"none", "toggle", "reconnect", "test_ssl", "clear_token"}

\* The state a script run works on: the world, how the run ended (Running until
\* then), the authenticate_google call it made, its own calls of
\* enable_ssl_bypass / disable_ssl_bypass, the widgets it rendered, and whether
\* the user's action was taken up
MainContext(w) ==
    [w |-> w, ended |-> Running, auth |-> None, ssl_calls |-> <<>>,
     options |-> FALSE, connected |-> FALSE, indicator |-> FALSE, acted |-> FALSE]

End(m, how) == [m EXCEPT !.ended = how]

\* line 31: every run executes the script from the top
ModuleInit(m) == [m EXCEPT !.w.ssl_module.bypass = FALSE]

\* lines 756-758: the status line shows the flag of this run
BypassStatus(m) == [m EXCEPT !.indicator = m.w.ssl_module.bypass]

\* lines 824-832: a callback in the URL clears the authenticated session
CallbackDetected(m) ==
    IF m.w.query_params.code # 0 /\ m.w.query_params.state # 0
    THEN [m EXCEPT !.w.session_state.authenticated = FALSE,
                   !.w.session_state.service = None]
    ELSE m

\* lines 841-844
CheckCredentialsFile(m) ==
    IF m.w.credentials_json = None THEN End(m, "stop") ELSE m

\* Mutant: the cloud environment does not switch the bypass on
AutoBypass_off(m) == m

\* lines 846-849: on cloud the bypass is switched on whenever the session has it
\* off
AutoBypass(m) ==
    IF m.ended # Running THEN m
    ELSE IF m.w.env.cloud /\ ~m.w.session_state.disable_ssl_verify
    THEN [m EXCEPT !.w.session_state.disable_ssl_verify = TRUE,
                   !.w.ssl_module = enable_ssl_bypass(@),
                   !.ssl_calls = Append(@, "enable")]
    ELSE m

\* lines 883-884, 931-932, 940-941, 1071-1072
RemoveToken(m) == [m EXCEPT !.w.token_json = None]

\* Mutant: the session forgets that it is authenticated but keeps the handle
Unauthenticate_keeps_service(m) ==
    [m EXCEPT !.w.session_state.authenticated = FALSE]

\* lines 879-880, 933-934, 942-943, 1073-1074
Unauthenticate(m) ==
    [m EXCEPT !.w.session_state.authenticated = FALSE,
              !.w.session_state.service = None]

\* lines 862-887: the checkbox shows the session's setting; when the user changed
\* it, the setting is stored, the bypass switched, and an authenticated session
\* loses its credential
SslOptions(m, act) ==
    IF m.ended # Running THEN m
    ELSE LET disable_ssl == IF act = "toggle"
                            THEN ~m.w.session_state.disable_ssl_verify
                            ELSE m.w.session_state.disable_ssl_verify
             m1 == [m EXCEPT !.options = TRUE, !.indicator = @ \/ disable_ssl]
         IN  IF disable_ssl # m.w.session_state.disable_ssl_verify
             THEN LET m2 == [m1 EXCEPT
                               !.acted = TRUE,
                               !.w.session_state.disable_ssl_verify = disable_ssl,
                               !.w.ssl_module = IF disable_ssl
                                                THEN enable_ssl_bypass(@)
                                                ELSE disable_ssl_bypass(@),
                               !.ssl_calls = Append(@, IF disable_ssl THEN "enable"
                                                       ELSE "disable")]
                  IN  IF m.w.session_state.authenticated
                      THEN RemoveToken(Unauthenticate(m2))
                      ELSE m2
             ELSE m1

\* lines 889-923: an unauthenticated session calls authenticate_google; 'success'
\* stores the handle and reruns, every other status stops the run
Connect(m, in) ==
    LET ssl_bypass_needed == m.w.env.cloud \/ m.w.session_state.disable_ssl_verify
        r == authenticate_google(m.w, [in EXCEPT !.disable_ssl_verify = ssl_bypass_needed])
        m1 == [m EXCEPT !.w = r.w, !.auth = Some(Outcome(r))]
    IN  IF r.status = "success"
        THEN End([m1 EXCEPT !.w.session_state.service = r.service,
                            !.w.session_state.authenticated = TRUE],
                 "rerun")
        ELSE IF r.status \in {"rerun", Raised, Crashed, Blocked} THEN End(m1, r.status)
        ELSE End(m1, "stop")

\* lines 924-946: the connected view and its two buttons
Connected(m, act) ==
    LET m1 == [m EXCEPT !.connected = TRUE]
    IN  IF act = "reconnect"
        THEN End([Unauthenticate(RemoveToken(m1)) EXCEPT !.acted = TRUE], "rerun")
        ELSE IF act = "test_ssl"
        THEN End([Unauthenticate(RemoveToken(m1)) EXCEPT
                    !.acted = TRUE,
                    !.w.session_state.disable_ssl_verify = FALSE],
                 "rerun")
        ELSE m1

\* lines 889-946
Authentication(m, act, in) ==
    IF m.ended # Running THEN m
    ELSE IF ~m.w.session_state.authenticated THEN Connect(m, in)
    ELSE Connected(m, act)

\* lines 1067-1076: 'Clear Auth Token' acts only when token.json exists
CacheControl(m, act) ==
    IF m.ended # Running THEN m
    ELSE IF act = "clear_token"
    THEN IF m.w.token_json # None
         THEN End([Unauthenticate(RemoveToken(m)) EXCEPT !.acted = TRUE], "rerun")
         ELSE End([m EXCEPT !.acted = TRUE], "end")
    ELSE End(m, "end")

\* calendar_export_app.py, lines 744-1076, as far as credentials, session and
\* transport mode are concerned. setup_credentials_from_secrets (line 839) rewrites
\* credentials.json with the content the secrets gave it before.
main(w, act, in) ==
    CHOOSE m \in
        { CacheControl(m4, act) :
            m4 \in { Authentication(m3, act, in) :
              m3 \in { SslOptions(m2, act) :
                m2 \in { AutoBypass(m1) :
                  m1 \in { CheckCredentialsFile(CallbackDetected(
                              BypassStatus(ModuleInit(MainContext(w))))) } } } } } : TRUE

\* authenticate_google was not called
NotCalled == "not_called"

\* Authorization URLs generated over a run of main
MainFlows == MaxFlows - 1

\* The inputs of a run that consults none
NoInput ==
    [disable_ssl_verify |-> FALSE, refresh_ok |-> FALSE, accept |-> FALSE,
     local_ok |-> FALSE, local_hangs |-> FALSE, build_ok |-> FALSE, click |-> FALSE,
     write_fails |-> FALSE, write_crash |-> FALSE]

\* The client configurations the secrets of a deployment produce (lines 132-142):
\* one section, with its redirect URIs
DeployedConfigs ==
    { Config(TRUE, None, Some(<<"u1", "u2">>)),
      Config(TRUE, Some(<<"u2", "u1">>), None) }

\* One script run of main, triggered by one user action.
MainRun(act, in) ==
    /\ ~in.disable_ssl_verify
    /\ in.local_ok => ~env.cloud
    /\ (in.accept \/ in.click) => env.cloud
    /\ in.refresh_ok => token_json # None
    /\ act \in {"reconnect", "test_ssl", "clear_token"} => in = NoInput
    /\ in.click => (page.button /\ act = "none")
    /\ act = "toggle" => page.options
    /\ act \in {"reconnect", "test_ssl", "clear_token"} => page.connected
    /\ \E m \in {main(World, act, in)} :
       \E res \in {IF m.auth = None THEN Outcome(Return(Context(World), NotCalled))
                   ELSE Get(m.auth)} :
       LET stopped == m.ended = Crashed
       IN
        /\ act # "none" => m.acted
        /\ Consulted(in, res)
        /\ Len(m.w.provider.auth_urls) <= MainFlows
        /\ token_json' = m.w.token_json
        /\ credentials_json' = m.w.credentials_json
        /\ session_state' =
              IF stopped THEN EmptySession
              ELSE [m.w.session_state EXCEPT
                      !.oauth_redirect_input = IF res.rendered_input THEN @ ELSE None]
        /\ query_params' = IF stopped THEN NoParams ELSE m.w.query_params
        /\ ssl_module' = IF stopped THEN FreshSsl ELSE m.w.ssl_module
        /\ provider' = m.w.provider
        /\ page' = IF stopped THEN BlankPage
                   ELSE [input |-> res.rendered_input, button |-> res.rendered_button,
                         options |-> m.options, connected |-> m.connected,
                         indicator |-> m.indicator]
        /\ call' = Some([pre |-> World, in |-> in, res |-> res, act |-> act,
                         main |-> [ended |-> m.ended, ssl_calls |-> m.ssl_calls]])
        /\ UNCHANGED <<env, runs, export>>

\* While this session waits for its authorization, another session of the
\* process completes its own and stores the credential in the token.json all
\* sessions share.
TokenAppears ==
    /\ token_json = None
    /\ session_state.oauth_flow # None
    /\ token_json' = Some(to_json(Credential(TRUE, TRUE, "future", "other", 0)))
    /\ UNCHANGED <<credentials_json, session_state, query_params, ssl_module, provider,
                   page, env, runs, export>>
    /\ call' = None

MainInit ==
    /\ token_json \in {None, Some(Credential(TRUE, TRUE, "future", "stored", 0))}
    /\ credentials_json = None
    /\ session_state = EmptySession
    /\ query_params = NoParams
    /\ ssl_module = FreshSsl
    /\ provider = [auth_urls |-> <<>>, codes |-> <<>>, consumed |-> {}]
    /\ page = BlankPage
    /\ env \in { [variant |-> "app", cloud |-> TRUE],
                 [variant |-> "app", cloud |-> FALSE] }
    /\ runs = NoRuns
    /\ export = None
    /\ call = None

MainNext ==
    \/ \E act \in Actions, in \in Inputs : MainRun(act, in)
    \/ \E url \in PastedURLs : UserPastes(url)
    \/ \E n \in 1..Len(provider.auth_urls) : OpenAuthorizationURL(n)
    \/ \E params \in RequestParams, lost \in BOOLEAN : Visit(params, lost)
    \/ TimePasses
    \/ \E cfg \in DeployedConfigs : AddClientConfig(cfg)
    \/ TokenAppears

MainSpec == MainInit /\ [][MainNext]_vars

\* ---------------------------------------------------------------- two sessions
\* Script runs of two sessions of one process that reach create_http_client,
\* interleaved statement by statement. No statement of the program takes a lock.
\*
\* The mode calls main makes before authenticate_google (lines 846-849 and
\* 868-874) for a session with the given setting, and the setting they leave
ModeCallsOf(setting, act) ==
    LET w == [World EXCEPT !.session_state.disable_ssl_verify = setting]
    IN  CHOOSE r \in { [calls |-> m.ssl_calls,
                        setting |-> m.w.session_state.disable_ssl_verify] :
                         m \in { SslOptions(m1, act) :
                                  m1 \in {AutoBypass(ModuleInit(MainContext(w)))} } } : TRUE

\* A session's script starts a run: the module globals are fresh (line 31), main
\* makes its mode calls, and line 893-894 asks create_http_client (line 544) for
\* the mode of the session. The checkbox can be toggled once a run has shown it.
StartRun(s, act) ==
    /\ runs[s].pc = "idle"
    /\ act = "toggle" => runs[s].http # None
    /\ \E m \in {ModeCallsOf(runs[s].setting, act)} :
       \E d \in {env.cloud \/ m.setting} :
          runs' = [runs EXCEPT ![s] =
                     [pc |-> "call",
                      todo |-> Append(m.calls, IF d THEN "enable" ELSE "disable"),
                      setting |-> m.setting, disable_ssl_verify |-> d,
                      flag |-> FALSE, http |-> runs[s].http]]
    /\ UNCHANGED <<token_json, credentials_json, session_state, query_params, ssl_module,
                   provider, page, env, call, export>>

\* The run enters its next mode call and evaluates the condition of line 164
\* (with line 166) or of line 180
EnterModeCall(s) ==
    /\ runs[s].pc = "call"
    /\ runs[s].todo # <<>>
    /\ LET next == IF Head(runs[s].todo) = "enable"
                   THEN IF runs[s].flag THEN "call"
                        ELSE IF ssl_module.original = None THEN "save" ELSE "patch"
                   ELSE IF runs[s].flag /\ ssl_module.original # None THEN "restore"
                        ELSE "call"
       IN  runs' = [runs EXCEPT ![s].pc = next, ![s].todo = Tail(@)]
    /\ UNCHANGED <<token_json, credentials_json, session_state, query_params, ssl_module,
                   provider, page, env, call, export>>

\* line 167
SaveOriginal(s) ==
    /\ runs[s].pc = "save"
    /\ ssl_module' = [ssl_module EXCEPT !.original = Some(ssl_module.context)]
    /\ runs' = [runs EXCEPT ![s].pc = "patch"]
    /\ UNCHANGED <<token_json, credentials_json, session_state, query_params,
                   provider, page, env, call, export>>

\* lines 170-171
PatchContext(s) ==
    /\ runs[s].pc = "patch"
    /\ ssl_module' = [ssl_module EXCEPT !.context = "unverified"]
    /\ runs' = [runs EXCEPT ![s].pc = "call", ![s].flag = TRUE]
    /\ UNCHANGED <<token_json, credentials_json, session_state, query_params,
                   provider, page, env, call, export>>

\* lines 182-183
RestoreContext(s) ==
    /\ runs[s].pc = "restore"
    /\ ssl_module.original # None
    /\ ssl_module' = [ssl_module EXCEPT !.context = Get(ssl_module.original)]
    /\ runs' = [runs EXCEPT ![s].pc = "call", ![s].flag = FALSE]
    /\ UNCHANGED <<token_json, credentials_json, session_state, query_params,
                   provider, page, env, call, export>>

\* lines 199-203 / 209-210 and 547-551: the HTTP client and the handle on it
BuildClient(s) ==
    /\ runs[s].pc = "call"
    /\ runs[s].todo = <<>>
    /\ runs' = [runs EXCEPT
                  ![s].pc = "built",
                  ![s].http = Some([disable_ssl_certificate_validation |->
                                        runs[s].disable_ssl_verify])]
    /\ UNCHANGED <<token_json, credentials_json, session_state, query_params, ssl_module,
                   provider, page, env, call, export>>

\* lines 902-907: the handle is used, then the run ends
UseClient(s) ==
    /\ runs[s].pc = "built"
    /\ runs' = [runs EXCEPT ![s].pc = "idle", ![s].flag = FALSE]
    /\ UNCHANGED <<token_json, credentials_json, session_state, query_params, ssl_module,
                   provider, page, env, call, export>>

SessionsInit ==
    /\ token_json = Some(Credential(TRUE, TRUE, "future", "stored", 0))
    /\ credentials_json \in {Some(cfg) : cfg \in DeployedConfigs}
    /\ session_state = EmptySession
    /\ query_params = NoParams
    /\ ssl_module = FreshSsl
    /\ provider = [auth_urls |-> <<>>, codes |-> <<>>, consumed |-> {}]
    /\ page = BlankPage
    /\ env \in { [variant |-> "app", cloud |-> TRUE],
                 [variant |-> "app", cloud |-> FALSE] }
    /\ runs = NoRuns
    /\ export = None
    /\ call = None

SessionsNext ==
    \/ \E s \in Sessions, act \in {"none", "toggle"} : StartRun(s, act)
    \/ \E s \in Sessions : EnterModeCall(s)
    \/ \E s \in Sessions : SaveOriginal(s)
    \/ \E s \in Sessions : PatchContext(s)
    \/ \E s \in Sessions : RestoreContext(s)
    \/ \E s \in Sessions : BuildClient(s)
    \/ \E s \in Sessions : UseClient(s)

SessionsSpec == SessionsInit /\ [][SessionsNext]_vars

\* ---------------------------------------------------------------- get_calendar_events
\* The export step: one events().list request per selected calendar, the
\* answers filtered by colour.  The date range only parameterises the request
\* and is part of what the API answers.

MaxCalendars == 2      \* calendars selected for one export
MaxEvents == 1         \* events the API lists for one calendar

\* CALENDAR_COLORS: Google Calendar colour id -> colour name
CALENDAR_COLORS ==
    ("1" :> "Lavender") @@ ("2" :> "Sage") @@ ("3" :> "Grape") @@
    ("4" :> "Flamingo") @@ ("5" :> "Banana") @@ ("6" :> "Tangerine") @@
    ("7" :> "Peacock") @@ ("8" :> "Graphite") @@ ("9" :> "Blueberry") @@
    ("10" :> "Basil") @@ ("11" :> "Tomato")

\* COLOR_NAMES: the names offered in the colour filter
COLOR_NAMES == {CALENDAR_COLORS[k] : k \in DOMAIN CALENDAR_COLORS} \cup {"Default"}

\* The colour names the user ticks: two table colours and 'Default'
SelectableColors == {"Lavender", "Sage", "Default"}

\* colorId of a listed event: absent, a table id, or an id the table lacks
EventColorIds == {None, Some("1"), Some("2"), Some("12")}

\* The n-th event the API lists for a calendar
Event(calendar_id, n, colorId) ==
    [calendar_id |-> calendar_id, n |-> n, colorId |-> colorId]

\* The event lists the API may answer for a calendar
Listings(calendar_id) ==
    UNION { { [n \in 1..len |-> Event(calendar_id, n, ids[n])] :
                ids \in [1..len -> EventColorIds] } : len \in 0..MaxEvents }

\* What events().list(...).execute() does for a calendar: it answers with
\* items, raises HttpError (an error answer of the API), or raises another
\* exception (transport failure)
Answers(calendar_id) ==
    { [raises |-> "none", items |-> es] : es \in Listings(calendar_id) }
        \cup { [raises |-> e, items |-> <<>>] : e \in {"HttpError", "other"} }

\* The answers of the API for calendars 1..k, k up to MaxCalendars
ApiAnswers ==
    UNION { { api \in [1..k -> UNION {Answers(id) : id \in 1..k}] :
                \A id \in 1..k : api[id] \in Answers(id) } : k \in 0..MaxCalendars }

\* color_ids: the table ids whose name is selected
ColorIdsOf(selected_colors) ==
    {k \in DOMAIN CALENDAR_COLORS : CALENDAR_COLORS[k] \in selected_colors}

\* Mutant: an event without colorId passes only when 'Default' is selected
EventKept_needs_default(event, color_ids, selected_colors) ==
    LET event_color_id == event.colorId IN
    \/ event_color_id # None /\ Get(event_color_id) # ""
          /\ Get(event_color_id) \in color_ids
    \/ (event_color_id = None \/ Get(event_color_id) = "")
          /\ "Default" \in selected_colors

\* lines 618-628: the test on one event: a truthy colorId must be among
\* color_ids, a missing one passes when selected_colors is non-empty
EventKept(event, color_ids, selected_colors) ==
    LET event_color_id == event.colorId IN
    \/ event_color_id # None /\ Get(event_color_id) # ""
          /\ Get(event_color_id) \in color_ids
    \/ (event_color_id = None \/ Get(event_color_id) = "")
          /\ selected_colors # {}

\* Mutant: an HttpError drops the events collected so far
RECURSIVE FetchEvents_error_resets(_, _, _, _, _)
FetchEvents_error_resets(api, calendar_ids, color_ids, selected_colors, all_events) ==
    IF calendar_ids = <<>> THEN [status |-> "returned", all_events |-> all_events]
    ELSE
        LET answer == api[Head(calendar_ids)]
            Kept(event) == EventKept(event, color_ids, selected_colors)
        IN  IF answer.raises = "HttpError"
            THEN FetchEvents_error_resets(api, Tail(calendar_ids), color_ids,
                                          selected_colors, <<>>)
            ELSE IF answer.raises # "none"
            THEN [status |-> Raised, all_events |-> <<>>]
            ELSE FetchEvents_error_resets(api, Tail(calendar_ids), color_ids,
                                          selected_colors,
                                          all_events \o SelectSeq(answer.items, Kept))

\* lines 601-634: the loop over calendar_ids: HttpError skips the calendar and
\* keeps all_events, any other exception leaves the function
RECURSIVE FetchEvents(_, _, _, _, _)
FetchEvents(api, calendar_ids, color_ids, selected_colors, all_events) ==
    IF calendar_ids = <<>> THEN [status |-> "returned", all_events |-> all_events]
    ELSE
        LET answer == api[Head(calendar_ids)]
            Kept(event) == EventKept(event, color_ids, selected_colors)
        IN  IF answer.raises = "HttpError"
            THEN FetchEvents(api, Tail(calendar_ids), color_ids, selected_colors,
                             all_events)
            ELSE IF answer.raises # "none"
            THEN [status |-> Raised, all_events |-> <<>>]
            ELSE FetchEvents(api, Tail(calendar_ids), color_ids, selected_colors,
                             all_events \o SelectSeq(answer.items, Kept))

\* get_calendar_events of the app
get_calendar_events(api, calendar_ids, selected_colors) ==
    FetchEvents(api, calendar_ids, ColorIdsOf(selected_colors), selected_colors, <<>>)

\* get_calendar_events of the diagnostic variant: the same loop and test, the
\* request without maxResults and showDeleted
get_calendar_events_diagnostic(api, calendar_ids, selected_colors) ==
    FetchEvents(api, calendar_ids, ColorIdsOf(selected_colors), selected_colors, <<>>)

\* One call of get_calendar_events: any selected calendars and colours, any
\* answers of the API (main calls it with a non-empty selection of colours)
GetCalendarEvents ==
    /\ export = None
    /\ \E api \in ApiAnswers, selected_colors \in SUBSET SelectableColors :
       \E calendar_ids \in {[i \in 1..Len(api) |-> i]} :
       \E res \in { IF env.variant = "app"
                    THEN get_calendar_events(api, calendar_ids, selected_colors)
                    ELSE get_calendar_events_diagnostic(api, calendar_ids,
                                                        selected_colors) } :
           export' = Some([api |-> api, calendar_ids |-> calendar_ids,
                           selected_colors |-> selected_colors, res |-> res])
    /\ UNCHANGED <<token_json, credentials_json, session_state, query_params,
                   ssl_module, provider, page, env, runs, call>>

EventsInit ==
    /\ token_json = Some(Credential(TRUE, TRUE, "future", "stored", 0))
    /\ credentials_json \in {Some(cfg) : cfg \in DeployedConfigs}
    /\ session_state = EmptySession
    /\ query_params = NoParams
    /\ ssl_module = FreshSsl
    /\ provider = [auth_urls |-> <<>>, codes |-> <<>>, consumed |-> {}]
    /\ page = BlankPage
    /\ env \in { [variant |-> "app", cloud |-> FALSE],
                 [variant |-> "diagnostic", cloud |-> FALSE] }
    /\ runs = NoRuns
    /\ export = None
    /\ call = None

EventsNext == GetCalendarEvents

EventsSpec == EventsInit /\ [][EventsNext]_vars

\* ---------------------------------------------------------------- vocabulary of the claims
Called == call # None
Pre == Get(call).pre       \* the world the last call started in
In  == Get(call).in        \* the outcomes it was given
Res == Get(call).res       \* what it did and returned

Headless == Pre.env.variant = "app" /\ Pre.env.cloud

\* FlowState of a session: pending flow object, authorization URL, redirect URI in use
FlowState(s) == <<s.oauth_flow, s.auth_url, s.redirect_uri>>

NoFlowActivity ==
    Res.n_authorization_url = 0 /\ Res.n_fetch_token = 0 /\ Res.n_run_local_server = 0

\* A stored record with an access token that has not expired
HoldsValid(file) == file # None /\ Get(file).token /\ Get(file).expiry = "future"

\* A stored record that has expired and carries a refresh token
HoldsRefreshable(file) ==
    file # None /\ Get(file).expiry = "past" /\ Get(file).refresh_token

\* A stored record that is invalid and carries no refresh token
HoldsUnusable(file) ==
    /\ file # None
    /\ ~Get(file).token \/ Get(file).expiry = "past"
    /\ ~Get(file).refresh_token

\* An installed-type / web-type client configuration with a first redirect URI
InstalledConfig(file) ==
    /\ file # None
    /\ Get(file).parses /\ Get(file).web = None
    /\ Get(file).installed # None /\ Len(Get(Get(file).installed)) > 0

WebConfig(file) ==
    /\ file # None
    /\ Get(file).parses
    /\ Get(file).web # None /\ Len(Get(Get(file).web)) > 0

\* The credential an exchange of `code` yields, as token.json holds it
ExchangedRecord(code) ==
    [token |-> TRUE, refresh_token |-> TRUE, expiry |-> "future", via |-> "exchange",
     code |-> code]

\* ---------------------------------------------------------------- C1
\* C1 (as stated): with a valid credential in token.json the call returns
\* 'success' with a handle, attempts no refresh, starts or resumes no flow, and
\* leaves token.json and the session FlowState unchanged.
C1_AsStated ==
    (Called /\ HoldsValid(Pre.token_json)) =>
        /\ Res.status = "success" /\ Res.service # None
        /\ Res.n_refresh = 0 /\ NoFlowActivity
        /\ ~Res.wrote_token /\ ~Res.removed_token /\ token_json = Pre.token_json
        /\ FlowState(session_state) = FlowState(Pre.session_state)

\* C1 (amended): with a valid credential in token.json the call returns 'success'
\* with a handle, or 'service_error' without one when building the client raises;
\* in both cases it attempts no refresh, starts or resumes no flow, and leaves
\* token.json and the session FlowState unchanged.
C1_ValidTokenShortCircuit ==
    (Called /\ HoldsValid(Pre.token_json)) =>
        /\ Res.status \in {"success", "service_error"}
        /\ Res.status = "success" <=> In.build_ok
        /\ Res.status = "success" <=> Res.service # None
        /\ Res.n_refresh = 0 /\ NoFlowActivity
        /\ ~Res.wrote_token /\ ~Res.removed_token /\ token_json = Pre.token_json
        /\ FlowState(session_state) = FlowState(Pre.session_state)

\* A headless call that found a valid credential and a session that still holds
\* part of a FlowState, and returned the handle
C1_Witness ==
    /\ Called /\ HoldsValid(Pre.token_json) /\ Headless
    /\ Pre.session_state.redirect_uri # None
    /\ Res.status = "success"

\* ---------------------------------------------------------------- C2
\* The first call of a headless session with an installed-type configuration and
\* no stored credential
C2_FirstCall ==
    /\ Called /\ Headless
    /\ InstalledConfig(Pre.credentials_json)
    /\ Pre.token_json = None
    /\ Pre.session_state = EmptySession

\* A later call of such a session, given a pasted redirect URL whose code was issued
\* for the pending flow and whose state is that of the pending flow, the provider
\* accepting the exchange
C2_MatchingPaste ==
    /\ Called /\ Headless
    /\ InstalledConfig(Pre.credentials_json)
    /\ Pre.token_json = None
    /\ Pre.session_state.oauth_flow # None
    /\ Pre.session_state.oauth_redirect_input # None
    /\ LET url == Get(Pre.session_state.oauth_redirect_input)
           flow == Get(Pre.session_state.oauth_flow)
       IN  /\ url.code \in 1..Len(Pre.provider.codes)
           /\ url.state = flow.state
           /\ Pre.provider.codes[url.code].state = flow.state
    /\ Res.fetch # None /\ Get(Res.fetch).ok

C2_FirstCallSuspends ==
    C2_FirstCall =>
        /\ Res.status = "awaiting_auth"
        /\ Res.n_authorization_url = 1
        /\ session_state.auth_url # None /\ session_state.oauth_flow # None
        /\ LET first == Get(Get(Pre.credentials_json).installed)[1]
           IN  /\ Get(session_state.auth_url).redirect_uri = first
               /\ Get(session_state.oauth_flow).redirect_uri = first
               /\ Get(session_state.oauth_flow).state = Get(session_state.auth_url).state

C2_TokenStored ==
    C2_MatchingPaste =>
        /\ Res.wrote_token
        /\ token_json = Some(ExchangedRecord(
                                Get(Pre.session_state.oauth_redirect_input).code))

\* C2 (as stated): the first call returns 'awaiting_auth' with a URL bound to
\* redirect_uris[0]; the call given the matching redirect URL, the provider
\* accepting, returns 'success' and token.json holds the exchanged credential.
C2_AsStated ==
    /\ C2_FirstCallSuspends
    /\ C2_TokenStored
    /\ C2_MatchingPaste => Res.status = "success"

\* C2 (amended): ... the call given the matching redirect URL, the provider
\* accepting, stores the exchanged credential in token.json and returns 'success',
\* or 'service_error' when building the client raises.
C2_ManualFlowCompletes ==
    /\ C2_FirstCallSuspends
    /\ C2_TokenStored
    /\ C2_MatchingPaste =>
          /\ Res.status \in {"success", "service_error"}
          /\ Res.status = "success" <=> In.build_ok
          /\ Res.status = "success" =>
                /\ Res.service # None
                /\ Get(Res.service).creds.code =
                       Get(Pre.session_state.oauth_redirect_input).code

\* The second step happened and ended authenticated
C2_Witness == C2_MatchingPaste /\ Res.status = "success" /\ token_json # None

\* ---------------------------------------------------------------- C3
\* A headless call with a web-type configuration that exchanged the `code`
\* callback parameter with success
C3_CallbackExchanged ==
    /\ Called /\ Headless
    /\ WebConfig(Pre.credentials_json)
    /\ Pre.query_params.code # 0
    /\ Res.fetch # None /\ Get(Res.fetch).ok
    /\ Get(Res.fetch).code = Pre.query_params.code

\* C3 (as stated): when a web callback's code is exchanged with success, the same
\* call persists the exchanged credential to token.json and returns 'success'
\* with a handle.
C3_AsStated ==
    C3_CallbackExchanged =>
        /\ token_json = Some(ExchangedRecord(Pre.query_params.code))
        /\ Res.status = "success"
        /\ Res.service # None

\* ---------------------------------------------------------------- C4
\* A headless call without stored credential, callback parameter or pasted URL
C4_Quiet ==
    /\ Called /\ Headless
    /\ Pre.token_json = None
    /\ Pre.query_params.code = 0
    /\ Pre.session_state.oauth_redirect_input = None

\* C4: while a flow is pending, every such call returns 'awaiting_auth', calls
\* authorization_url() no more, and leaves the pending flow, the authorization URL
\* and the CSRF state of the session as they were; the call that starts the flow
\* calls authorization_url() once.
C4_IdempotentWhileSuspended ==
    /\ (C4_Quiet /\ Pre.session_state.oauth_flow # None) =>
          /\ Res.status = "awaiting_auth"
          /\ Res.n_authorization_url = 0
          /\ FlowState(session_state) = FlowState(Pre.session_state)
          /\ Get(session_state.oauth_flow).state = Get(Pre.session_state.oauth_flow).state
          /\ Get(session_state.auth_url).state = Get(session_state.oauth_flow).state
          /\ provider.auth_urls = Pre.provider.auth_urls
    /\ (C4_Quiet /\ Pre.session_state.oauth_flow = None /\ Res.status = "awaiting_auth") =>
          /\ Res.n_authorization_url = 1
          /\ Len(provider.auth_urls) = Len(Pre.provider.auth_urls) + 1
          /\ Get(session_state.oauth_flow).state = Len(provider.auth_urls)
    /\ (C4_Quiet /\ Pre.session_state.oauth_flow = None
           /\ (InstalledConfig(Pre.credentials_json) \/ WebConfig(Pre.credentials_json))) =>
          Res.status = "awaiting_auth"

\* A call that found the flow pending and left it so
C4_Witness ==
    /\ C4_Quiet /\ Pre.session_state.oauth_flow # None
    /\ Res.status = "awaiting_auth"
    /\ session_state.oauth_flow = Pre.session_state.oauth_flow

\* ---------------------------------------------------------------- C5
\* A call that found an expired credential with a refresh token and refreshed it
C5_Refreshed ==
    /\ Called /\ HoldsRefreshable(Pre.token_json)
    /\ Res.n_refresh = 1 /\ In.refresh_ok

C5_Body ==
    /\ Res.wrote_token
    /\ token_json = Some([Get(Pre.token_json) EXCEPT
                            !.token = TRUE, !.expiry = "future", !.via = "refresh"])
    /\ NoFlowActivity
    /\ FlowState(session_state) = FlowState(Pre.session_state)

\* Every expired credential with a refresh token is refreshed, once
C5_RefreshAttempted ==
    (Called /\ HoldsRefreshable(Pre.token_json)) => Res.n_refresh = 1

\* C5 (as stated): when the refresh succeeds the call overwrites token.json with
\* the refreshed credential and returns 'success', without starting a flow and
\* without needing credentials.json.
C5_AsStated ==
    /\ C5_RefreshAttempted
    /\ C5_Refreshed => (C5_Body /\ Res.status = "success")

\* C5 (amended): when the refresh succeeds the call overwrites token.json with the
\* refreshed credential and returns 'success', or 'service_error' when building the
\* client raises, without starting a flow and without needing credentials.json.
C5_RefreshOverwrites ==
    /\ C5_RefreshAttempted
    /\ C5_Refreshed =>
          /\ C5_Body
          /\ Res.status \in {"success", "service_error"}
          /\ Res.status = "success" <=> In.build_ok
          /\ Res.status = "success" => Res.service # None

\* A refresh that succeeded with no credentials.json in place
C5_Witness ==
    /\ C5_Refreshed /\ Pre.credentials_json = None
    /\ Res.status = "success" /\ HoldsValid(token_json)

\* ---------------------------------------------------------------- C6
\* A call that found an expired credential with a refresh token and failed to
\* refresh it
C6_RefreshFailed ==
    /\ Called /\ HoldsRefreshable(Pre.token_json)
    /\ Res.n_refresh = 1 /\ ~In.refresh_ok

\* What the same call does when token.json is absent from the start
C6_NoCredentialCase == Run([Pre EXCEPT !.token_json = None], In)

\* C6: when the refresh fails the call removes token.json, refreshes no second
\* time, and goes on as it does without a stored credential: same status and
\* handle, same flow steps, same files, session, query parameters and provider
\* state afterwards.
C6_FailedRefreshFallsBack ==
    C6_RefreshFailed =>
        /\ Res.n_refresh = 1
        /\ Res.removed_token
        /\ ~Res.wrote_token => token_json = None
        /\ Pre.credentials_json = None => Res.status = "credentials_missing"
        /\ Res.status = C6_NoCredentialCase.status
        /\ Res.service = C6_NoCredentialCase.service
        /\ Res.n_authorization_url = C6_NoCredentialCase.n_authorization_url
        /\ Res.n_fetch_token = C6_NoCredentialCase.n_fetch_token
        /\ Res.n_run_local_server = C6_NoCredentialCase.n_run_local_server
        /\ Res.wrote_token = C6_NoCredentialCase.wrote_token
        /\ token_json = C6_NoCredentialCase.w.token_json
        /\ FlowState(session_state) = FlowState(C6_NoCredentialCase.w.session_state)
        /\ query_params = C6_NoCredentialCase.w.query_params
        /\ provider = C6_NoCredentialCase.w.provider
        /\ ssl_module = C6_NoCredentialCase.w.ssl_module

\* A failed refresh after which the call started a fresh authorization flow
C6_Witness ==
    /\ C6_RefreshFailed
    /\ Res.status = "awaiting_auth" /\ Res.n_authorization_url = 1
    /\ token_json = None

\* ---------------------------------------------------------------- C7
\* C7 (as stated): a loaded credential that is invalid and has no refresh token
\* is never returned with 'success' nor saved again; the call goes on as without
\* a stored credential ('credentials_missing' when there is no client
\* configuration).
C7_AsStated ==
    (Called /\ HoldsUnusable(Pre.token_json)) =>
        /\ Res.service # None =>
              to_json(Get(Res.service).creds) # Get(Pre.token_json)
        /\ ~(Res.wrote_token /\ token_json = Pre.token_json)
        /\ Pre.credentials_json = None => Res.status = "credentials_missing"

\* ---------------------------------------------------------------- C8
\* No usable stored credential: none, an invalid one without refresh token, or an
\* expired one whose refresh fails
C8_NoUsableCredential ==
    \/ Pre.token_json = None
    \/ HoldsUnusable(Pre.token_json)
    \/ HoldsRefreshable(Pre.token_json) /\ ~In.refresh_ok

\* C8 (as stated): without a usable stored credential and without credentials.json
\* the call returns (None, 'credentials_missing'), creates no flow, writes no
\* token.json and leaves the session FlowState as it was.
C8_AsStated ==
    (Called /\ Pre.credentials_json = None /\ C8_NoUsableCredential) =>
        /\ Res.status = "credentials_missing"
        /\ Res.service = None
        /\ NoFlowActivity
        /\ ~Res.wrote_token
        /\ FlowState(session_state) = FlowState(Pre.session_state)

\* ---------------------------------------------------------------- C9
\* redirect_uris[0] of the client configuration, for the client type in use
C9_Canonical ==
    LET cfg == Get(Pre.credentials_json)
    IN  IF cfg.web # None THEN Get(cfg.web)[1] ELSE Get(cfg.installed)[1]

\* C9: in every headless token exchange, whether the flow comes from the session
\* or was rebuilt, the redirect URI of the flow is redirect_uris[0], it is the URI of
\* the authorization URL that flow was generated with, and it is the URI the
\* exchanged code was issued for; a flow and its authorization URL are stored in
\* the session with one URI.
C9_RedirectUriDiscipline ==
    /\ (Called /\ Headless /\ Res.fetch # None) =>
          LET f == Get(Res.fetch)
          IN  /\ f.redirect_uri = C9_Canonical
              /\ f.source \in {"session", "started", "rebuilt"}
              /\ f.flow_state \in 1..Len(provider.auth_urls) =>
                    provider.auth_urls[f.flow_state].redirect_uri = f.redirect_uri
              /\ f.code \in 1..Len(provider.codes) =>
                    provider.codes[f.code].redirect_uri = f.redirect_uri
    /\ (session_state.oauth_flow # None /\ session_state.auth_url # None) =>
          /\ Get(session_state.oauth_flow).redirect_uri =
                Get(session_state.auth_url).redirect_uri
          /\ session_state.redirect_uri = Some(Get(session_state.oauth_flow).redirect_uri)

\* An exchange of an issued code with a flow rebuilt after the session lost its
\* FlowState, accepted by the provider
C9_Witness ==
    /\ Called /\ Headless /\ Res.fetch # None
    /\ Get(Res.fetch).source = "rebuilt"
    /\ Pre.session_state = EmptySession
    /\ Get(Res.fetch).code \in 1..Len(provider.codes)
    /\ Get(Res.fetch).ok

\* ---------------------------------------------------------------- C10
\* A call that tried to exchange a code the provider had exchanged before
C10_Replay ==
    /\ Called /\ Res.fetch # None
    /\ Get(Res.fetch).code \in Pre.provider.consumed

\* Codes are exchanged with success once: an exchange succeeds only for a code not
\* consumed before, and consumes it for good
C10_SingleUse ==
    Called =>
        /\ Pre.provider.consumed \subseteq provider.consumed
        /\ (Res.fetch # None /\ Get(Res.fetch).ok) =>
              /\ Get(Res.fetch).code \notin Pre.provider.consumed
              /\ Get(Res.fetch).code \in provider.consumed

\* A replay yields no credential, and a credential from an exchange is the one of
\* the exchange this very call made
C10_NoCredentialFromReplay ==
    /\ C10_Replay =>
          /\ ~Get(Res.fetch).ok
          /\ Res.creds = None /\ Res.service = None
          /\ ~Res.wrote_token /\ token_json = None
    /\ (Called /\ Res.wrote_token /\ Get(token_json).via = "exchange") =>
          /\ Res.fetch # None /\ Get(Res.fetch).ok
          /\ Get(token_json).code = Get(Res.fetch).code

\* C10 (as stated): a code leads to at most one successful exchange; a further
\* exchange attempt with it ends in an error status and produces no credential,
\* never one read off a cached flow.
C10_AsStated ==
    /\ C10_SingleUse
    /\ C10_NoCredentialFromReplay
    /\ C10_Replay => Res.status = "auth_error"

\* C10 (amended): ... a further exchange attempt with it produces no credential
\* and ends in an error status, or, in the manual flow after the user pressed
\* 'Clear and Restart Authentication', in a rerun of the script (st.rerun())
\* instead of a returned status.
C10_ReplaySafety ==
    /\ C10_SingleUse
    /\ C10_NoCredentialFromReplay
    /\ C10_Replay =>
          /\ Res.status \in {"auth_error", "rerun"}
          /\ Res.status = "rerun" <=> (In.click /\ Res.rendered_button)

\* A replay through the manual flow
C10_Witness ==
    /\ C10_Replay
    /\ Pre.session_state.oauth_redirect_input # None
    /\ Res.status = "auth_error"

\* ---------------------------------------------------------------- C11
\* A headless call with a web client that attempted the exchange of the `code`
\* callback parameter
C11_CallbackProcessed ==
    /\ Called /\ Headless
    /\ get_oauth_client_type(Pre.credentials_json) = "web"
    /\ Pre.query_params.code # 0
    /\ Res.fetch # None /\ Get(Res.fetch).code = Pre.query_params.code

\* What the callback does clear: the pending flow object and the callback
\* parameters
C11_FlowAndParamsCleared ==
    C11_CallbackProcessed =>
        /\ session_state.oauth_flow = None
        /\ query_params = NoParams

\* C11 (as stated): after a web callback was processed the session holds no
\* FlowState (pending flow, authorization URL, redirect URI in use) and the query
\* parameters hold neither code nor state.
C11_AsStated ==
    C11_CallbackProcessed =>
        /\ FlowState(session_state) = <<None, None, None>>
        /\ query_params = NoParams

\* ---------------------------------------------------------------- C12
\* A headless call with a web client and no credential in hand that finds a
\* `code` callback parameter
C12_CallbackArrives ==
    /\ Called /\ Headless
    /\ WebConfig(Pre.credentials_json)
    /\ Pre.token_json = None \/ (HoldsRefreshable(Pre.token_json) /\ ~In.refresh_ok)
    /\ Pre.query_params.code # 0

\* The flow the code builds from credentials.json for such a callback
C12_RebuiltFlow ==
    [client_type |-> "web",
     redirect_uri |-> Get(Get(Pre.credentials_json).web)[1],
     state |-> 0,
     _state |-> Pre.query_params.state]

Returned == Called /\ Res.status \notin {"rerun", Raised, Crashed, Blocked}

\* C16: every return of authenticate_google carries a status among 'success',
\* 'awaiting_auth', 'credentials_missing', 'auth_error: ...', 'service_error: ...',
\* and a handle exactly when the status is 'success'; a call that does not return
\* hands out no handle.
C16_ReturnVocabulary ==
    /\ Returned =>
          /\ Res.status \in {"success", "awaiting_auth", "credentials_missing",
                             "auth_error", "service_error"}
          /\ Res.service # None <=> Res.status = "success"
    /\ (Called /\ ~Returned) => Res.service = None

\* A build that failed after the credential was obtained and saved
C16_Witness ==
    /\ Returned /\ Res.wrote_token
    /\ Res.status = "service_error" /\ Res.service = None

\* ---------------------------------------------------------------- C17
\* C17 (as stated): no exception leaves authenticate_google, whatever token.json
\* holds and whatever the refresh, the flow, the exchange and the write of
\* token.json do: every call returns a (handle, status) pair.
C17_AsStated ==
    Called => Res.status # Raised

\* The exceptions that do leave the function come from the load of token.json and
\* from its write, or are the script rerun of the restart button; every other
\* failure is returned as a status
C17_EscapesOnlyFromLoadAndSave ==
    (Called /\ Res.status = Raised) =>
        \/ Pre.token_json # None /\ ~loadable(Get(Pre.token_json))
        \/ In.write_fails

\* ---------------------------------------------------------------- C18
\* What the same call does when token.json is absent from the start
C18_NoCredentialCase == Run([Pre EXCEPT !.token_json = None], In)

\* C18 (as stated): a token.json that is malformed or lacks required fields is
\* treated as absent: the call goes on as it does without a stored credential.
C18_AsStated ==
    (Called /\ Pre.token_json # None /\ ~loadable(Get(Pre.token_json))) =>
        /\ Res.status = C18_NoCredentialCase.status
        /\ Res.n_authorization_url = C18_NoCredentialCase.n_authorization_url
        /\ Res.service = None

\* ---------------------------------------------------------------- C19
\* A call that finds the file a stopped write left behind
C19_AfterStoppedWrite ==
    Called /\ Pre.token_json = Some(Unparsable)

\* A cut-off file is never taken for a credential
C19_NeverAcceptedAsValid ==
    C19_AfterStoppedWrite =>
        /\ Res.creds = None /\ Res.service = None
        /\ Res.status # "success"

\* C19 (as stated): after a process stopped while writing token.json, the next
\* load sees a complete record or treats the store as absent, and never accepts
\* the cut-off file as a credential.
C19_AsStated ==
    /\ C19_NeverAcceptedAsValid
    /\ C19_AfterStoppedWrite =>
          /\ Res.status # Raised
          /\ Res.status = Run([Pre EXCEPT !.token_json = None], In).status

\* ---------------------------------------------------------------- vocabulary of the claims on main
Act == Get(call).act       \* what the user did to trigger the last run
Main == Get(call).main     \* how the run ended and which mode switches main made

\* The mode switches of the last run in order: those of main, then the one of
\* create_http_client when authenticate_google came to build the client
ModeCalls ==
    Main.ssl_calls \o
    (IF "build_ok" \in Res.asked
     THEN <<IF Pre.env.cloud \/ session_state.disable_ssl_verify
            THEN "enable" ELSE "disable">>
     ELSE <<>>)

\* ---------------------------------------------------------------- C13
\* A run whose last mode switch is a deactivation, in a process where the bypass
\* was activated before
C13_Deactivated ==
    /\ Called /\ Main.ended # Crashed
    /\ Pre.ssl_module.original # None
    /\ ModeCalls # <<>> /\ ModeCalls[Len(ModeCalls)] = "disable"

\* C13 (as stated): once the bypass was activated and then deactivated, the
\* default HTTPS context factory of the process is the one in effect before the
\* first activation, as in a process that never switched.
C13_AsStated ==
    C13_Deactivated =>
        /\ ssl_module.context = FreshSsl.context
        /\ ssl_module.context = Get(ssl_module.original)

\* ---------------------------------------------------------------- C14
\* C14: over all runs and all calls of enable_ssl_bypass, disable_ssl_bypass and
\* create_http_client, the saved original ssl._create_default_https_context_original
\* is set by the first activation and never assigned again, it holds the verifying
\* factory and never the unverified one, and a step that takes the unverified
\* factory out of service installs the saved one.
C14_OriginalSavedOnce ==
    /\ [](/\ ssl_module.original \in {None, Some(FreshSsl.context)}
          /\ ssl_module.original = None =>
                (ssl_module.context = FreshSsl.context /\ ~ssl_module.bypass))
    /\ [][/\ ssl_module.original # None => ssl_module'.original = ssl_module.original
          /\ (ssl_module.original = None /\ ssl_module'.context = "unverified") =>
                ssl_module'.original = Some(ssl_module.context)
          /\ (ssl_module.context = "unverified" /\ ssl_module'.context # "unverified") =>
                ssl_module'.context = Get(ssl_module.original)]_vars

\* A run in a process whose bypass was on from an earlier run: the bypass is
\* activated once more and then deactivated, and the verifying factory is back
C14_Witness ==
    /\ Called
    /\ Pre.ssl_module.context = "unverified" /\ Pre.ssl_module.original # None
    /\ ModeCalls = <<"enable", "disable">>
    /\ ssl_module.context = FreshSsl.context
    /\ ssl_module.original = Pre.ssl_module.original

\* ---------------------------------------------------------------- C15
\* A run in a process where the bypass was never activated, hence where no user
\* ever ticked the checkbox (ticking it calls enable_ssl_bypass, line 872), and
\* in which the user does not tick it either
C15_NoOptIn ==
    /\ Called
    /\ Pre.ssl_module = FreshSsl
    /\ ~Pre.session_state.disable_ssl_verify
    /\ Act # "toggle"

\* The run left the transport verified: bypass off, verifying factory in place,
\* no client built with certificate validation disabled
C15_Verified ==
    /\ ~ssl_module.bypass
    /\ ssl_module.context = FreshSsl.context
    /\ Res.service # None => ~Get(Res.service).http.disable_ssl_certificate_validation

\* C15 (as stated): the bypass is active, or a client is built without
\* certificate validation, only after the user opted in; no code path activates
\* the bypass on its own, on cloud or locally.
C15_AsStated == C15_NoOptIn => C15_Verified

\* The same for the local environment alone
C15_LocalOnly == (C15_NoOptIn /\ ~Pre.env.cloud) => C15_Verified

\* ---------------------------------------------------------------- C20
\* The run in which the user pressed 'Reconnect'
C20_Reconnect == Called /\ Act = "reconnect"

\* What 'Reconnect' does clear: the stored credential and the authenticated
\* session with its handle
C20_CredentialCleared ==
    C20_Reconnect =>
        /\ token_json = None
        /\ ~session_state.authenticated
        /\ session_state.service = None

\* C20 (as stated): after 'Reconnect' token.json is absent, the session is
\* unauthenticated and without handle, and neither a pending flow object nor an
\* authorization URL remains in the session.
C20_AsStated ==
    /\ C20_CredentialCleared
    /\ C20_Reconnect =>
          /\ session_state.oauth_flow = None
          /\ session_state.auth_url = None

\* ---------------------------------------------------------------- C22
\* The client type the claim states for a credentials.json: 'web' when the file
\* parses and has a top-level web key, 'installed' in every other case
C22_Stated(file) ==
    IF file # None /\ Get(file).parses /\ Get(file).web # None THEN "web"
    ELSE "installed"

\* The last call went past line 302, where client_type is bound
C22_Determined ==
    /\ Called
    /\ \/ Res.status \in {"awaiting_auth", "auth_error", "rerun"}
       \/ Res.n_fetch_token > 0
       \/ Res.n_run_local_server > 0
       \/ Res.n_authorization_url > 0

\* C22: get_oauth_client_type is total: on every credentials.json (absent,
\* unparsable, with either key, both or none) it yields 'web' exactly when a
\* top-level web key is present and 'installed' otherwise, and a call of
\* authenticate_google that determines the client type works with that value.
C22_ClientTypeTotal ==
    /\ get_oauth_client_type(credentials_json) = C22_Stated(credentials_json)
    /\ (C22_Determined /\ Pre.env.variant = "app") =>
           Res.client_type = C22_Stated(Pre.credentials_json)

\* A call on a configuration with both keys that worked as a web client
C22_Witness ==
    /\ C22_Determined
    /\ Pre.env.variant = "app"
    /\ Get(Pre.credentials_json).web # None
    /\ Get(Pre.credentials_json).installed # None
    /\ Res.client_type = "web"

\* ---------------------------------------------------------------- C21
\* The process-wide factory a requested mode stands for
Mode(disable_ssl_verify) == IF disable_ssl_verify THEN "unverified" ELSE "verified"

\* C21 as stated: under every interleaving of the sessions' script runs, from the
\* moment a run has built its HTTP client until it has used it, the process-wide
\* transport mode is the mode that run asked create_http_client for (so that no
\* other session's enable or restore is in effect for it).
C21_AsStated ==
    \A s \in Sessions :
        runs[s].pc = "built" => ssl_module.context = Mode(runs[s].disable_ssl_verify)

\* ---------------------------------------------------------------- C23
\* The last call made an exchange for a callback while the session held a
\* pending flow
C23_Callback ==
    /\ Called
    /\ Res.fetch # None
    /\ Pre.session_state.oauth_flow # None

\* The state value the callback carried: the `state` query parameter of a web
\* callback, the state in the pasted redirect URL of an installed client
C23_CallbackState ==
    IF Res.client_type = "web" THEN Pre.query_params.state
    ELSE Get(Pre.session_state.oauth_redirect_input).state

\* C23 as stated: a callback that is exchanged for a credential while the session
\* holds a pending flow carries the CSRF state generated with that flow's
\* authorization URL.
C23_AsStated ==
    (C23_Callback /\ fetch_ok(Res)) =>
        C23_CallbackState = Get(Pre.session_state.oauth_flow).state

\* What the code does check: the state in a pasted redirect URL
C23_PastedStateChecked ==
    (C23_Callback /\ fetch_ok(Res) /\ Res.client_type = "installed") =>
        C23_CallbackState = Get(Pre.session_state.oauth_flow).state

\* ---------------------------------------------------------------- C24
\* The last call attempted an exchange and it failed
C24_FailedExchange == Called /\ Res.fetch # None /\ ~fetch_ok(Res)

\* C24 as stated: when a call whose exchange failed is followed by the next call
\* with no user input in between (no paste, no new request), that next call
\* attempts no exchange; this includes the call that follows a restart of the flow.
C24_AsStated ==
    [][(C24_FailedExchange /\ call' # None) => Get(call').res.fetch = None]_vars

\* The restart case on its own: the call after a restart makes no exchange attempt
C24_NoExchangeAfterRestart ==
    [][(C24_FailedExchange /\ Res.status = "rerun" /\ call' # None)
          => Get(call').res.fetch = None]_vars

\* ---------------------------------------------------------------- C25
\* The last run of main was started by no user action and ended in st.rerun()
C25_AutomaticRerun == Called /\ Act = "none" /\ Main.ended = "rerun"

\* C25 as stated, in the form of its necessary condition on one run: a run that
\* requests an automatic rerun has moved the program on. (A run that requests a
\* rerun and leaves files, session, query parameters and process state exactly as
\* it found them is followed by the same run again, without end.)
C25_AsStated == C25_AutomaticRerun => World # Pre

\* The case the claim singles out: a valid token.json and a request URL with both
\* parameters
C25_ValidTokenAndCallback ==
    /\ Called
    /\ HoldsValid(Pre.token_json)
    /\ Pre.query_params.code # 0
    /\ Pre.query_params.state # 0

\* ---------------------------------------------------------------- C26
\* The last run of main changed the transport-mode setting
C26_SettingChanged == Called /\ Act \in {"toggle", "test_ssl"}

\* authenticate_google, called later in the same run, found the stored credential
\* on disk and worked with it
C26_LoadedStored ==
    \/ Res.n_refresh > 0
    \/ Res.creds # None /\ ~fetch_ok(Res) /\ Res.n_run_local_server = 0

\* The credential stored before the run is gone: the run did not load it, and
\* what token.json and the session hold afterwards, if anything, comes from an
\* authorization made after the change
C26_StoredCredentialGone ==
    /\ ~C26_LoadedStored
    /\ token_json = None \/ Res.wrote_token
    /\ session_state.authenticated => Res.status = "success"

\* C26 as stated: every change of the setting (checkbox in either direction, 'Test
\* With SSL Enabled') deletes the stored credential and leaves the session
\* unauthenticated, whether or not the session was authenticated before.
C26_AsStated == C26_SettingChanged => C26_StoredCredentialGone

\* The case the code handles: the session is authenticated when the change is
\* processed (no callback in the URL has reset it at line 829)
C26_AuthenticatedCase ==
    (/\ C26_SettingChanged
     /\ Pre.session_state.authenticated
     /\ ~(Pre.query_params.code # 0 /\ Pre.query_params.state # 0))
        => C26_StoredCredentialGone

\* ---------------------------------------------------------------- C27
\* The HTTP client inside the handle the last call returned
C27_Http == Get(Res.service).http

\* Process-wide bypass is active: module ssl hands out unverified contexts
C27_BypassActive == ssl_module.context = "unverified"

\* C27 as stated: when authenticate_google returns 'success', the client in the
\* handle has certificate validation disabled exactly when process-wide bypass is
\* active right after the call, and both agree with the disable_ssl_verify
\* argument.
C27_AsStated ==
    (Called /\ Res.status = "success") =>
        /\ C27_Http.disable_ssl_certificate_validation <=> C27_BypassActive
        /\ C27_Http.disable_ssl_certificate_validation <=> In.disable_ssl_verify

\* What the code guarantees: the client and the module flag follow the argument
C27_HandleFollowsArgument ==
    (Called /\ Res.status = "success") =>
        /\ C27_Http.disable_ssl_certificate_validation <=> In.disable_ssl_verify
        /\ ssl_module.bypass <=> In.disable_ssl_verify

\* ---------------------------------------------------------------- C28
\* C28 as stated: in every reachable state the flag _ssl_bypass_enabled is true
\* exactly when ssl._create_default_https_context is the unverified factory, page
\* reruns included.
C28_AsStated == ssl_module.bypass <=> ssl_module.context = "unverified"

\* One direction holds: a set flag means the factory is patched
C28_FlagImpliesPatched == ssl_module.bypass => ssl_module.context = "unverified"

\* ---------------------------------------------------------------- C29
\* The last call took the interactive branch
C29_Interactive == Called /\ Res.n_run_local_server > 0

\* C29 as stated: every call that takes the interactive branch returns, with
\* 'success' and the credential persisted or with an error status, also when the
\* provider redirect never arrives; it leaves no FlowState in the session and
\* never returns 'awaiting_auth'.
C29_AsStated ==
    C29_Interactive =>
        /\ Res.status \in {"success", "auth_error", "service_error"}
        /\ Res.status = "success" => token_json = Some(to_json(Get(Res.creds)))
        /\ FlowState(session_state) = FlowState(Pre.session_state)

\* The same for the calls in which run_local_server() does return
C29_WhenTheRedirectArrives ==
    (C29_Interactive /\ Res.status \notin {Blocked, Raised, Crashed}) =>
        /\ Res.status \in {"success", "auth_error", "service_error"}
        /\ Res.status = "success" => token_json = Some(to_json(Get(Res.creds)))
        /\ FlowState(session_state) = FlowState(Pre.session_state)

\* ---------------------------------------------------------------- C30
\* The credential in the handle was obtained by another session of the process
C30_OthersCredential == Get(Res.service).creds.via = "other"

\* C30 as stated: a session is given 'success' and a handle only on a credential
\* of its own; the authorization another session completed never authenticates a
\* session that has not authorized.
C30_AsStated == (Called /\ Res.status = "success") => ~C30_OthersCredential

\* ---------------------------------------------------------------- C31
\* The last call tried to exchange a pasted redirect URL and the exchange failed
C31_FailedManualExchange ==
    /\ Called
    /\ Res.client_type = "installed"
    /\ Res.fetch # None
    /\ ~fetch_ok(Res)

\* The FlowState the exchange was made with: the one the session held when the
\* call began, or the one the call itself stored at lines 424-426
C31_FlowStateAtExchange ==
    IF Pre.session_state.oauth_flow # None THEN FlowState(Pre.session_state)
    ELSE <<Res.flow, Res.auth_url, Res.redirect_uri>>

\* C31: when the exchange of a pasted redirect URL fails, token.json is not
\* written; without a press of the restart button the call returns an auth_error
\* status and the session's flow object, authorization URL and redirect URI stay
\* as they were; with a press the flow object and the authorization URL are
\* removed (and the script reruns).
C31_FailedExchangeKeepsState ==
    C31_FailedManualExchange =>
        /\ ~Res.wrote_token
        /\ token_json = Pre.token_json \/ (Res.removed_token /\ token_json = None)
        /\ IF In.click
           THEN /\ Res.status = "rerun"
                /\ session_state.oauth_flow = None
                /\ session_state.auth_url = None
                /\ session_state.redirect_uri = C31_FlowStateAtExchange[3]
           ELSE /\ Res.status = "auth_error"
                /\ FlowState(session_state) = C31_FlowStateAtExchange

\* A failed exchange on a resumed flow, without a press of the button
C31_Witness ==
    /\ C31_FailedManualExchange
    /\ Pre.session_state.oauth_flow # None
    /\ ~In.click
    /\ session_state.oauth_flow = Pre.session_state.oauth_flow

\* The restart case
C31_WitnessRestart == C31_FailedManualExchange /\ In.click /\ Res.status = "rerun"

\* ---------------------------------------------------------------- C32
\* The last status is 'awaiting_auth' or an error
C32_SuspendedOrFailed ==
    /\ Called
    /\ Res.status \in {"awaiting_auth", "auth_error", "service_error", "credentials_missing"}

\* The page offers a reset: the restart button of line 514 (discards the pending
\* flow), or the connected view with 'Reconnect' and, further down, 'Clear Auth
\* Token' (remove token.json)
C32_ResetOffered == page.button \/ page.connected

\* C32 as stated: whenever the last status is 'awaiting_auth' or an error, the
\* page the run rendered offers an action that discards the pending FlowState or
\* clears the stored token, for web and installed clients alike.
C32_AsStated == C32_SuspendedOrFailed => C32_ResetOffered

\* The one case in which the code offers it: a failed exchange of a pasted URL
C32_OfferedAfterFailedPaste ==
    (C32_SuspendedOrFailed /\ C31_FailedManualExchange) => page.button

\* ---------------------------------------------------------------- C33
\* C33 as stated: a page rendered while process-wide bypass is active shows a
\* notice that SSL verification is disabled, also after 'Test With SSL Enabled'
\* and after a rerun.
C33_AsStated ==
    (Called /\ Main.ended # Crashed /\ ssl_module.context = "unverified") => page.indicator

\* What the notice of lines 886-887 does follow: the session's setting
C33_IndicatorFollowsSetting ==
    (Called /\ Main.ended # Crashed /\ page.options /\ Act # "test_ssl") =>
        (page.indicator <=> session_state.disable_ssl_verify)

\* ---------------------------------------------------------------- C34
\* C34: in every state a run of main leaves, the session is marked authenticated
\* exactly when it holds a client handle.
C34_AuthenticatedIffService ==
    session_state.authenticated <=> session_state.service # None

\* An authenticated session that one of the resetting actions has just cleared
C34_Witness ==
    /\ Called
    /\ Pre.session_state.authenticated
    /\ Pre.session_state.service # None
    /\ Act \in {"toggle", "reconnect", "test_ssl", "clear_token"}
    /\ ~session_state.authenticated
    /\ session_state.service = None

\* ---------------------------------------------------------------- C35
\* C35: outside the cloud, on the world and with the outcomes of any call made,
\* authenticate_google of calendar_export_app.py and of
\* calendar_export_app_diagnostic.py end with the same status and leave the same
\* token.json and the same state of module ssl.
C35_VariantsAgree ==
    (Called /\ ~Pre.env.cloud) =>
        \A a \in {authenticate_google(Pre, In)} :
        \A d \in {authenticate_google_diagnostic(Pre, In)} :
            /\ a.status = d.status
            /\ a.w.token_json = d.w.token_json
            /\ a.w.ssl_module = d.w.ssl_module

\* A call outside the cloud that refreshed a stored credential, and one that went
\* through the browser
C35_Witness ==
    /\ Called
    /\ ~Pre.env.cloud
    /\ Res.status = "success"
    /\ Res.n_refresh > 0 \/ Res.n_run_local_server > 0
    /\ In.disable_ssl_verify

\* ---------------------------------------------------------------- C36
Exported == export # None
Export == Get(export)

\* The events listed by the calendars whose request was answered
C36_Listed ==
    UNION { {Export.api[id].items[n] : n \in DOMAIN Export.api[id].items} :
              id \in {i \in DOMAIN Export.api : Export.api[i].raises = "none"} }

\* The events get_calendar_events returned
C36_Returned == {Export.res.all_events[i] : i \in DOMAIN Export.res.all_events}

\* The colorId of the event maps to a selected colour name, or the event has
\* no colorId and some colour is selected
C36_Wanted(event) ==
    \/ /\ event.colorId # None
       /\ Get(event.colorId) \in DOMAIN CALENDAR_COLORS
       /\ CALENDAR_COLORS[Get(event.colorId)] \in Export.selected_colors
    \/ /\ event.colorId = None
       /\ Export.selected_colors # {}

\* C36: get_calendar_events (both variants) returns exactly the listed events
\* whose colorId maps to a selected colour name or that have no colorId while
\* any colour is selected; an event whose colorId maps to an unselected or
\* unknown colour is never returned; and an HttpError on one calendar neither
\* ends the call nor drops the events of the calendars that answered.
C36_ColourFilter ==
    Exported =>
        /\ (\A id \in DOMAIN Export.api : Export.api[id].raises # "other")
              => Export.res.status = "returned"
        /\ Export.res.status = "returned" =>
              /\ C36_Returned = {e \in C36_Listed : C36_Wanted(e)}
              /\ Len(Export.res.all_events) = Cardinality(C36_Returned)

\* An export of two calendars: the first lists an event without colorId, the
\* second answers with HttpError, only 'Sage' is selected, and the event of
\* the first calendar is returned
C36_Witness ==
    /\ Exported
    /\ Len(Export.api) = 2
    /\ Export.api[1] = [raises |-> "none", items |-> <<Event(1, 1, None)>>]
    /\ Export.api[2].raises = "HttpError"
    /\ Export.selected_colors = {"Sage"}
    /\ Export.res.status = "returned"
    /\ Export.res.all_events = <<Event(1, 1, None)>>

\* A coloured event kept because its name is selected, next to an HttpError
\* on the calendar before it
C36_WitnessColoured ==
    /\ Exported
    /\ Len(Export.api) = 2
    /\ Export.api[1].raises = "HttpError"
    /\ Export.api[2] = [raises |-> "none", items |-> <<Event(2, 1, Some("1"))>>]
    /\ Export.selected_colors = {"Lavender", "Default"}
    /\ Export.res.all_events = <<Event(2, 1, Some("1"))>>

\* ---------------------------------------------------------------- C37
\* The session holds a pending flow
C37_FlowPending(s) == s.oauth_flow # None

\* A call that found a pending flow and took it from the session (lines 427-431)
C37_Resumed ==
    /\ Called
    /\ C37_FlowPending(Pre.session_state)
    /\ Res.n_authorization_url = 0
    /\ Res.status = "awaiting_auth"

\* C37: while oauth_flow is in the session, auth_url and redirect_uri are in it
\* too, so a call that resumes the pending flow finds every key it reads; and
\* a call that returns 'awaiting_auth' leaves oauth_flow in the session.
C37_FlowKeysTogether ==
    /\ C37_FlowPending(session_state) =>
          session_state.auth_url # None /\ session_state.redirect_uri # None
    /\ Called =>
          /\ C37_FlowPending(Pre.session_state) =>
                Pre.session_state.auth_url # None /\ Pre.session_state.redirect_uri # None
          /\ Res.status = "awaiting_auth" => C37_FlowPending(session_state)

\* A call resumed the pending flow and suspended again, the three keys in place
C37_Witness ==
    /\ C37_Resumed
    /\ C37_FlowPending(session_state)
    /\ session_state.auth_url # None
    /\ session_state.redirect_uri # None

\* The authorization URL was removed by a restart, and the flow with it
C37_WitnessRestart ==
    /\ Called
    /\ C37_FlowPending(Pre.session_state)
    /\ Res.status = "rerun"
    /\ session_state.auth_url = None
    /\ ~C37_FlowPending(session_state)
    /\ session_state.redirect_uri # None

====
